---- MODULE Spec2Model ----
(***************************************************************************)
(* Gesture core of the hand trackpad: GestureClassifier                    *)
(* (src/core/gesture/classifier.py) and GestureDetector                    *)
(* (src/core/gesture/detector.py).                                         *)
(*                                                                         *)
(* Numbers.  The code works on floats; the model works on integers:        *)
(*   - time is counted in ticks of 0.25 s, so the literal 0.5 s of the     *)
(*     double-click test is 2 ticks and swipe_cooldown is a tick count;    *)
(*   - thumb distances and click_threshold share one unit, palm            *)
(*     coordinates and the two distance thresholds share another.          *)
(* Every comparison of the code (<, >, >=, ==) is kept as written.         *)
(***************************************************************************)
EXTENDS Integers, Sequences, FiniteSets, TLC

VARIABLES
    classifier,   \* the GestureClassifier instance (its fields)
    detector,     \* the GestureDetector instance (its fields, classifier apart)
    now,          \* the clock read by time.time(), non-decreasing
    session,      \* the gesture modes the frames of this run go through
    ghost,        \* history of the run: when events were last reported
    call,         \* the last operation called and the arguments it read
    out,          \* what that operation returned (or that it raised)
    mouse,        \* the MouseController instance and the cursor it moves
    panel,        \* the CameraPanel: is_displaying, its display threads
    tracker       \* the HandTracker instance of src/src/core/hand_tracker.py

vars == <<classifier, detector, now, session, ghost, call, out, mouse, panel, tracker>>

-----------------------------------------------------------------------------
(* Bounds of the model *)

MaxTime == 4        \* the clock stops at this tick
MaxCount == 3       \* cap of scroll_frame_count / swipe_frame_count
MaxDelta == 2       \* largest |delta_x|, |delta_y| and min_distance tried
MaxHands == 2       \* most hands the hand detector returns for one camera frame
MaxThreads == 3     \* display threads created in one run

-----------------------------------------------------------------------------
(* Values *)

MOVE == "move"
CLICK == "click"
SCROLL == "scroll"
SWIPE == "swipe"
GestureType == {MOVE, CLICK, SCROLL, SWIPE}

\* A run exercises one action detector: its frames are in that detector's mode
\* or in MOVE mode (every mode but a detector's own resets that detector as
\* MOVE does)
Sessions == {{CLICK, MOVE}, {SCROLL, MOVE}, {SWIPE, MOVE}}

None == <<>>            \* Python None where a point is expected
NoDirection == "None"   \* Python None where a direction string is expected

DoubleClickWindow == 2  \* the literal 0.5 (s) of detect_click_actions, in ticks
max_history_size == 3

Abs(v) == IF v < 0 THEN -v ELSE v
Min(a, b) == IF a < b THEN a ELSE b
SetOf(s) == {s[i] : i \in DOMAIN s}

\* np.sqrt on the sums of squares the modelled hands produce (perfect squares)
Sqrt(n) == CHOOSE r \in 0..n : r * r = n

\* Thumb distances offered to the classifier: below, at and above click_threshold
Distances == {1, 2, 3}
\* Palm positions (landmark 9) offered to the scroll and swipe handlers
Palms == {<<0, 0, 0>>, <<1, 0, 0>>, <<2, 0, 0>>, <<0, 1, 0>>}

Bool == {TRUE, FALSE}
FingerStates ==
    [index_extended : Bool, middle_extended : Bool,
     ring_extended : Bool, pinky_extended : Bool]

-----------------------------------------------------------------------------
(* Configurations (the 'gesture' dictionary) *)

DefaultConfig ==
    [finger_threshold |-> 0, click_threshold |-> 2,
     scroll_distance_threshold |-> 0, scroll_required_frames |-> 1,
     swipe_distance_threshold |-> 0, swipe_required_frames |-> 3,
     swipe_cooldown |-> 2, double_click_time |-> 2,
     invert_scroll_x |-> TRUE, invert_scroll_y |-> FALSE,
     invert_swipe_x |-> TRUE, invert_swipe_y |-> FALSE]

ConfigB ==
    [finger_threshold |-> 1, click_threshold |-> 3,
     scroll_distance_threshold |-> 1, scroll_required_frames |-> 2,
     swipe_distance_threshold |-> 1, swipe_required_frames |-> 1,
     swipe_cooldown |-> 3, double_click_time |-> 1,
     invert_scroll_x |-> FALSE, invert_scroll_y |-> TRUE,
     invert_swipe_x |-> FALSE, invert_swipe_y |-> TRUE]

ConfigC ==
    [finger_threshold |-> 0, click_threshold |-> 2,
     scroll_distance_threshold |-> 0, scroll_required_frames |-> 2,
     swipe_distance_threshold |-> 0, swipe_required_frames |-> 2,
     swipe_cooldown |-> 1, double_click_time |-> 3,
     invert_scroll_x |-> FALSE, invert_scroll_y |-> FALSE,
     invert_swipe_x |-> FALSE, invert_swipe_y |-> FALSE]

ConfigSet == {DefaultConfig, ConfigB, ConfigC}

-----------------------------------------------------------------------------
(* GestureClassifier *)

\* GestureClassifier.__init__
ClassifierInit(config) ==
    [config |-> config,
     finger_threshold |-> config.finger_threshold,
     click_threshold |-> config.click_threshold,
     gesture_history |-> <<>>,
     current_gesture_mode |-> CLICK,
     is_mode_stable |-> FALSE,
     thumb_index_touching |-> FALSE,
     thumb_middle_touching |-> FALSE,
     last_click_time |-> 0,
     click_count |-> 0]

\* classify_gesture with the scroll test written >= instead of >
classify_gesture_scroll_at_threshold(self, finger_state, thumb_middle_distance) ==
    IF finger_state.pinky_extended THEN CLICK
    ELSE IF ~(finger_state.index_extended \/ finger_state.middle_extended
              \/ finger_state.ring_extended \/ finger_state.pinky_extended)
    THEN SWIPE
    ELSE IF finger_state.index_extended /\ finger_state.middle_extended
            /\ ~finger_state.ring_extended /\ ~finger_state.pinky_extended
    THEN (IF thumb_middle_distance >= self.click_threshold THEN SCROLL ELSE CLICK)
    ELSE IF finger_state.index_extended /\ ~finger_state.middle_extended
            /\ ~finger_state.ring_extended /\ ~finger_state.pinky_extended
    THEN MOVE
    ELSE CLICK

\* GestureClassifier.classify_gesture
classify_gesture(self, finger_state, thumb_middle_distance) ==
    IF finger_state.pinky_extended THEN CLICK
    ELSE IF ~(finger_state.index_extended \/ finger_state.middle_extended
              \/ finger_state.ring_extended \/ finger_state.pinky_extended)
    THEN SWIPE
    ELSE IF finger_state.index_extended /\ finger_state.middle_extended
            /\ ~finger_state.ring_extended /\ ~finger_state.pinky_extended
    THEN (IF thumb_middle_distance > self.click_threshold THEN SCROLL ELSE CLICK)
    ELSE IF finger_state.index_extended /\ ~finger_state.middle_extended
            /\ ~finger_state.ring_extended /\ ~finger_state.pinky_extended
    THEN MOVE
    ELSE CLICK

\* GestureClassifier.get_stable_gesture_mode
\* get_stable_gesture_mode that keeps the mode of the last record when the
\* new mode is in none of the last three records
get_stable_gesture_mode_debounced(self, current_mode) ==
    IF current_mode = SCROLL THEN current_mode
    ELSE IF Len(self.gesture_history) < 3 THEN current_mode
    ELSE LET h == self.gesture_history
             recent_modes == {h[i].mode : i \in (Len(h) - 2)..Len(h)}
         IN IF current_mode \notin recent_modes THEN h[Len(h)].mode ELSE current_mode

\* GestureClassifier.get_stable_gesture_mode
get_stable_gesture_mode(self, current_mode) ==
    IF current_mode = SCROLL THEN current_mode
    ELSE IF Len(self.gesture_history) < 3 THEN current_mode
    ELSE LET h == self.gesture_history
             recent_modes == {h[i].mode : i \in (Len(h) - 2)..Len(h)}
         IN IF current_mode \notin recent_modes THEN current_mode ELSE current_mode

\* The test of get_stable_gesture_mode's last branch: the history is consulted
\* (no SCROLL, three records or more) and the new mode is in none of the last
\* three records
ModeAbsentFromRecent(self, current_mode) ==
    /\ current_mode # SCROLL
    /\ Len(self.gesture_history) >= 3
    /\ LET h == self.gesture_history
       IN current_mode \notin {h[i].mode : i \in (Len(h) - 2)..Len(h)}

\* add_to_gesture_history that drops the newest record of a full history
add_to_gesture_history_drops_newest(self, gesture_info) ==
    LET appended == Append(self.gesture_history, gesture_info)
    IN [self EXCEPT !.gesture_history =
            IF Len(appended) > max_history_size
            THEN SubSeq(appended, 1, max_history_size) ELSE appended]

\* GestureClassifier.add_to_gesture_history
add_to_gesture_history(self, gesture_info) ==
    LET appended == Append(self.gesture_history, gesture_info)
    IN [self EXCEPT !.gesture_history =
            IF Len(appended) > max_history_size THEN Tail(appended) ELSE appended]

\* handle_mode_change that clears the history and forgets to note the new mode
handle_mode_change_stale_mode(self, gesture_mode) ==
    IF gesture_mode # self.current_gesture_mode
    THEN [self EXCEPT !.gesture_history = <<>>,
                      !.is_mode_stable = TRUE]
    ELSE self

\* handle_mode_change that leaves the history as it is
handle_mode_change_keeps_history(self, gesture_mode) ==
    IF gesture_mode # self.current_gesture_mode
    THEN [self EXCEPT !.current_gesture_mode = gesture_mode,
                      !.is_mode_stable = TRUE]
    ELSE self

\* GestureClassifier.handle_mode_change (the body; it declares one parameter)
handle_mode_change(self, gesture_mode) ==
    IF gesture_mode # self.current_gesture_mode
    THEN [self EXCEPT !.gesture_history = <<>>,
                      !.current_gesture_mode = gesture_mode,
                      !.is_mode_stable = TRUE]
    ELSE self

\* GestureDetector._add_to_history: the record of the frame, handed to the
\* classifier
_add_to_history(cls, stable_gesture_mode, current_time, finger_state) ==
    LET current_gesture_info ==
            [mode |-> stable_gesture_mode,
             timestamp |-> current_time,
             finger_states |-> finger_state]
    IN add_to_gesture_history(cls, current_gesture_info)

\* Touching with <= instead of <
Touching_at_threshold(distance, click_threshold) == distance <= click_threshold

\* "the fingers touch": distance < self.click_threshold, for either pair
Touching(distance, click_threshold) == distance < click_threshold

\* LeftClickEdge with the window test written <= instead of <
LeftClickEdge_window_inclusive(self, current_time) ==
    IF current_time - self.last_click_time <= DoubleClickWindow
    THEN LET n == self.click_count + 1
         IN [click_count |-> IF n >= 2 THEN 0 ELSE n,
             is_double_clicking |-> n >= 2,
             last_click_time |-> current_time]
    ELSE [click_count |-> 1,
          is_double_clicking |-> FALSE,
          last_click_time |-> current_time]

\* LeftClickEdge whose click outside the window clears the counter
LeftClickEdge_late_click_clears(self, current_time) ==
    IF current_time - self.last_click_time < DoubleClickWindow
    THEN LET n == self.click_count + 1
         IN [click_count |-> IF n >= 2 THEN 0 ELSE n,
             is_double_clicking |-> n >= 2,
             last_click_time |-> current_time]
    ELSE [click_count |-> 0,
          is_double_clicking |-> FALSE,
          last_click_time |-> current_time]

\* The left-click edge of detect_click_actions: the double-click bookkeeping
\* done when a touching thumb-index pair is released at current_time.
LeftClickEdge(self, current_time) ==
    IF current_time - self.last_click_time < DoubleClickWindow
    THEN LET n == self.click_count + 1
         IN [click_count |-> IF n >= 2 THEN 0 ELSE n,
             is_double_clicking |-> n >= 2,
             last_click_time |-> current_time]
    ELSE [click_count |-> 1,
          is_double_clicking |-> FALSE,
          last_click_time |-> current_time]

\* detect_click_actions whose right-click edge is counted as a click: it
\* stamps last_click_time and bumps click_count
detect_click_actions_right_counts(self, thumb_index_distance, thumb_middle_distance, current_time) ==
    LET touching == Touching(thumb_index_distance, self.click_threshold)
        left_edge == ~touching /\ self.thumb_index_touching
        edge == LeftClickEdge(self, current_time)
        right_touching == Touching(thumb_middle_distance, self.click_threshold)
        right_edge == ~right_touching /\ self.thumb_middle_touching
        count == IF left_edge THEN edge.click_count ELSE self.click_count
    IN [self |-> [self EXCEPT !.thumb_index_touching = touching,
                              !.thumb_middle_touching = right_touching,
                              !.click_count = IF right_edge THEN count + 1 ELSE count,
                              !.last_click_time =
                                  IF left_edge \/ right_edge THEN current_time ELSE @],
        actions |-> [is_clicking |-> left_edge,
                     is_right_clicking |-> right_edge,
                     is_double_clicking |-> left_edge /\ edge.is_double_clicking]]

\* detect_click_actions that reports a double click in place of the click that
\* completes it: is_clicking is withdrawn on the frame of a double click
detect_click_actions_double_alone(self, thumb_index_distance, thumb_middle_distance, current_time) ==
    LET touching == Touching(thumb_index_distance, self.click_threshold)
        left_edge == ~touching /\ self.thumb_index_touching
        edge == LeftClickEdge(self, current_time)
        right_touching == Touching(thumb_middle_distance, self.click_threshold)
    IN [self |-> [self EXCEPT !.thumb_index_touching = touching,
                              !.thumb_middle_touching = right_touching,
                              !.click_count = IF left_edge THEN edge.click_count ELSE @,
                              !.last_click_time = IF left_edge THEN current_time ELSE @],
        actions |-> [is_clicking |-> left_edge /\ ~edge.is_double_clicking,
                     is_right_clicking |-> ~right_touching /\ self.thumb_middle_touching,
                     is_double_clicking |-> left_edge /\ edge.is_double_clicking]]

\* GestureClassifier.detect_click_actions: the new classifier and the actions
detect_click_actions(self, thumb_index_distance, thumb_middle_distance, current_time) ==
    LET left ==
            IF Touching(thumb_index_distance, self.click_threshold)
            THEN [self |-> [self EXCEPT !.thumb_index_touching = TRUE],
                  is_clicking |-> FALSE, is_double_clicking |-> FALSE]
            ELSE IF self.thumb_index_touching
            THEN LET edge == LeftClickEdge(self, current_time)
                 IN [self |-> [self EXCEPT !.click_count = edge.click_count,
                                           !.last_click_time = edge.last_click_time,
                                           !.thumb_index_touching = FALSE],
                     is_clicking |-> TRUE,
                     is_double_clicking |-> edge.is_double_clicking]
            ELSE [self |-> [self EXCEPT !.thumb_index_touching = FALSE],
                  is_clicking |-> FALSE, is_double_clicking |-> FALSE]
        right ==
            IF Touching(thumb_middle_distance, self.click_threshold)
            THEN [self |-> [left.self EXCEPT !.thumb_middle_touching = TRUE],
                  is_right_clicking |-> FALSE]
            ELSE [self |-> [left.self EXCEPT !.thumb_middle_touching = FALSE],
                  is_right_clicking |-> left.self.thumb_middle_touching]
    IN [self |-> right.self,
        actions |-> [is_clicking |-> left.is_clicking,
                     is_right_clicking |-> right.is_right_clicking,
                     is_double_clicking |-> left.is_double_clicking]]

\* reset_click_states that resets nothing
reset_click_states_keeps_flags(self) == self

\* reset_click_states that forgets the thumb-middle flag
reset_click_states_index_only(self) ==
    [self EXCEPT !.thumb_index_touching = FALSE]

\* GestureClassifier.reset_click_states
reset_click_states(self) ==
    [self EXCEPT !.thumb_index_touching = FALSE, !.thumb_middle_touching = FALSE]

\* update_config that does not refresh the cached click_threshold
classifier_update_config_stale_threshold(self, config) ==
    [self EXCEPT !.config = config,
                 !.finger_threshold = config.finger_threshold]

\* GestureClassifier.update_config
classifier_update_config(self, config) ==
    [self EXCEPT !.config = config,
                 !.finger_threshold = config.finger_threshold,
                 !.click_threshold = config.click_threshold]

-----------------------------------------------------------------------------
(* GestureDetector *)

\* GestureDetector.__init__ (the classifier is the variable of that name)
DetectorInit(config) ==
    [config |-> config,
     scroll_palm_position |-> None,
     scroll_direction_history |-> <<>>,
     scroll_frame_count |-> 0,
     swipe_palm_position |-> None,
     swipe_direction_history |-> <<>>,
     swipe_frame_count |-> 0,
     last_swipe_time |-> 0,
     is_swipe_cooldown |-> FALSE]

\* _get_movement_direction with the Y test written >= instead of >
_get_movement_direction_y_at_threshold(delta_x, delta_y, min_distance) ==
    IF Abs(delta_x) > Abs(delta_y) /\ Abs(delta_x) > min_distance
    THEN (IF delta_x > 0 THEN "right" ELSE "left")
    ELSE IF Abs(delta_y) >= min_distance
    THEN (IF delta_y < 0 THEN "up" ELSE "down")
    ELSE NoDirection

\* _get_movement_direction with the axis test written >= instead of >
_get_movement_direction_x_on_tie(delta_x, delta_y, min_distance) ==
    IF Abs(delta_x) >= Abs(delta_y) /\ Abs(delta_x) > min_distance
    THEN (IF delta_x > 0 THEN "right" ELSE "left")
    ELSE IF Abs(delta_y) > min_distance
    THEN (IF delta_y < 0 THEN "up" ELSE "down")
    ELSE NoDirection

\* GestureDetector._get_movement_direction
_get_movement_direction(delta_x, delta_y, min_distance) ==
    IF Abs(delta_x) > Abs(delta_y) /\ Abs(delta_x) > min_distance
    THEN (IF delta_x > 0 THEN "right" ELSE "left")
    ELSE IF Abs(delta_y) > min_distance
    THEN (IF delta_y < 0 THEN "up" ELSE "down")
    ELSE NoDirection

\* KeepRecent that never evicts
KeepRecent_no_eviction(history, required_frames) == history

\* "keep the last N frames only": one pop(0) when the buffer is longer than N
KeepRecent(history, required_frames) ==
    IF Len(history) > required_frames THEN Tail(history) ELSE history

\* RunComplete without the length test
RunComplete_any_length(history, required_frames) ==
    Cardinality(SetOf(history)) = 1

\* "same direction for N frames": len(history) == N and len(set(history)) == 1
RunComplete(history, required_frames) ==
    Len(history) = required_frames /\ Cardinality(SetOf(history)) = 1

\* ScrollDirection that reads the swipe inversion flags
ScrollDirection_swipe_flags(self, palm_center) ==
    LET delta_x == palm_center[1] - self.scroll_palm_position[1]
        delta_y == palm_center[2] - self.scroll_palm_position[2]
    IN _get_movement_direction(
           IF self.config.invert_swipe_x THEN -delta_x ELSE delta_x,
           IF self.config.invert_swipe_y THEN -delta_y ELSE delta_y,
           self.config.scroll_distance_threshold)

\* The direction of the frame in _handle_scroll_mode
ScrollDirection(self, palm_center) ==
    LET delta_x == palm_center[1] - self.scroll_palm_position[1]
        delta_y == palm_center[2] - self.scroll_palm_position[2]
    IN _get_movement_direction(
           IF self.config.invert_scroll_x THEN -delta_x ELSE delta_x,
           IF self.config.invert_scroll_y THEN -delta_y ELSE delta_y,
           self.config.scroll_distance_threshold)

\* FirstReference that stores nothing
FirstReference_lost(self, palm_center) == None

\* "self.scroll_palm_position = palm_center" of the first frame
FirstReference(self, palm_center) == palm_center

\* NextReference that keeps the reference of the frame before
NextReference_kept(self, palm_center) == self.scroll_palm_position

\* "self.scroll_palm_position = palm_center" at the end of a frame that did
\* not fire
NextReference(self, palm_center) == palm_center

\* GestureDetector._handle_scroll_mode (palm_center = landmarks[9])
_handle_scroll_mode(self, palm_center) ==
    IF self.scroll_palm_position = None
    THEN [self |-> [self EXCEPT !.scroll_palm_position = FirstReference(self, palm_center),
                                !.scroll_direction_history = <<>>,
                                !.scroll_frame_count = 0],
          actions |-> [is_scrolling |-> FALSE, scroll_direction |-> "none"]]
    ELSE LET required_frames == self.config.scroll_required_frames
             current_direction == ScrollDirection(self, palm_center)
             history == KeepRecent(Append(self.scroll_direction_history, current_direction),
                                   required_frames)
         IN IF current_direction # NoDirection
            THEN IF RunComplete(history, required_frames)
                 THEN [self |-> [self EXCEPT !.scroll_palm_position = None,
                                             !.scroll_direction_history = <<>>,
                                             !.scroll_frame_count = 0],
                       actions |-> [is_scrolling |-> TRUE,
                                    scroll_direction |-> history[1]]]
                 ELSE [self |-> [self EXCEPT !.scroll_palm_position = NextReference(self, palm_center),
                                             !.scroll_direction_history = history,
                                             !.scroll_frame_count = @ + 1],
                       actions |-> [is_scrolling |-> FALSE, scroll_direction |-> "none"]]
            ELSE [self |-> [self EXCEPT !.scroll_palm_position = NextReference(self, palm_center),
                                        !.scroll_direction_history = <<>>,
                                        !.scroll_frame_count = 0],
                  actions |-> [is_scrolling |-> FALSE, scroll_direction |-> "none"]]

\* CooldownActive that never lets the cooldown end
CooldownActive_forever(self, current_time) == self.is_swipe_cooldown

\* The cooldown test at the head of _handle_swipe_mode: still cooling down
CooldownActive(self, current_time) ==
    /\ self.is_swipe_cooldown
    /\ self.config.swipe_cooldown - (current_time - self.last_swipe_time) > 0

\* The direction of the frame in _handle_swipe_mode
SwipeDirection(self, palm_center) ==
    LET delta_x == palm_center[1] - self.swipe_palm_position[1]
        delta_y == palm_center[2] - self.swipe_palm_position[2]
    IN _get_movement_direction(
           IF self.config.invert_swipe_x THEN -delta_x ELSE delta_x,
           IF self.config.invert_swipe_y THEN -delta_y ELSE delta_y,
           self.config.swipe_distance_threshold)

\* DuringCooldown that goes on tracking the palm
DuringCooldown_tracks_palm(self, palm_center) ==
    [self EXCEPT !.swipe_palm_position = palm_center]

\* The detector after the early return of a frame in the cooldown: nothing is
\* written before "return {'is_swiping': False, ...}"
DuringCooldown(self, palm_center) == self

\* ReferenceAfterSwipe that clears the reference, as a scroll event does
ReferenceAfterSwipe_cleared(self, palm_center) == None

\* swipe_palm_position after a swipe event: the branch does not assign it
ReferenceAfterSwipe(self, palm_center) == self.swipe_palm_position

\* GestureDetector._handle_swipe_mode (palm_center = landmarks[9])
_handle_swipe_mode(self, palm_center, current_time) ==
    IF CooldownActive(self, current_time)
    THEN [self |-> DuringCooldown(self, palm_center),
          actions |-> [is_swiping |-> FALSE, swipe_direction |-> "none"]]
    ELSE LET s == [self EXCEPT !.is_swipe_cooldown = FALSE]
         IN IF s.swipe_palm_position = None
            THEN [self |-> [s EXCEPT !.swipe_palm_position = palm_center,
                                     !.swipe_direction_history = <<>>,
                                     !.swipe_frame_count = 0],
                  actions |-> [is_swiping |-> FALSE, swipe_direction |-> "none"]]
            ELSE LET required_frames == s.config.swipe_required_frames
                     current_direction == SwipeDirection(s, palm_center)
                     history == KeepRecent(Append(s.swipe_direction_history,
                                                  current_direction),
                                           required_frames)
                 IN IF current_direction # NoDirection
                    THEN IF RunComplete(history, required_frames)
                         THEN [self |-> [s EXCEPT !.swipe_palm_position =
                                                      ReferenceAfterSwipe(s, palm_center),
                                                  !.last_swipe_time = current_time,
                                                  !.is_swipe_cooldown = TRUE,
                                                  !.swipe_direction_history = <<>>,
                                                  !.swipe_frame_count = 0],
                               actions |-> [is_swiping |-> TRUE,
                                            swipe_direction |-> history[1]]]
                         ELSE [self |-> [s EXCEPT !.swipe_palm_position = palm_center,
                                                  !.swipe_direction_history = history,
                                                  !.swipe_frame_count = @ + 1],
                               actions |-> [is_swiping |-> FALSE,
                                            swipe_direction |-> "none"]]
                    ELSE [self |-> [s EXCEPT !.swipe_palm_position = palm_center,
                                             !.swipe_direction_history = <<>>,
                                             !.swipe_frame_count = 0],
                          actions |-> [is_swiping |-> FALSE, swipe_direction |-> "none"]]

\* GestureDetector._reset_scroll_variables
_reset_scroll_variables(self) ==
    [self EXCEPT !.scroll_palm_position = None,
                 !.scroll_direction_history = <<>>,
                 !.scroll_frame_count = 0]

\* _reset_swipe_variables that also ends the cooldown
_reset_swipe_variables_and_cooldown(self) ==
    [self EXCEPT !.swipe_palm_position = None,
                 !.swipe_direction_history = <<>>,
                 !.swipe_frame_count = 0,
                 !.is_swipe_cooldown = FALSE]

\* GestureDetector._reset_swipe_variables
_reset_swipe_variables(self) ==
    [self EXCEPT !.swipe_palm_position = None,
                 !.swipe_direction_history = <<>>,
                 !.swipe_frame_count = 0]

\* The 'actions' dictionary _detect_gesture_actions starts from
DefaultActions ==
    [is_clicking |-> FALSE, is_right_clicking |-> FALSE,
     is_double_clicking |-> FALSE, is_scrolling |-> FALSE, is_swiping |-> FALSE,
     swipe_direction |-> "none", scroll_direction |-> "none"]

\* SwipeModeActive that also holds in SCROLL mode
SwipeModeActive_in_scroll(stable_gesture_mode) ==
    stable_gesture_mode \in {SWIPE, SCROLL}

\* "if stable_gesture_mode == GestureType.SWIPE" of _detect_gesture_actions
SwipeModeActive(stable_gesture_mode) == stable_gesture_mode = SWIPE

\* GestureDetector._detect_gesture_actions: the new classifier, the new detector
\* and the actions dictionary
_detect_gesture_actions(cls, self, stable_gesture_mode, thumb_index_distance, thumb_middle_distance, current_time, palm_center) ==
    LET click == IF stable_gesture_mode = CLICK
                 THEN detect_click_actions(cls, thumb_index_distance,
                                           thumb_middle_distance, current_time)
                 ELSE [self |-> reset_click_states(cls),
                       actions |-> [is_clicking |-> FALSE,
                                    is_right_clicking |-> FALSE,
                                    is_double_clicking |-> FALSE]]
        scroll == IF stable_gesture_mode = SCROLL
                  THEN _handle_scroll_mode(self, palm_center)
                  ELSE [self |-> _reset_scroll_variables(self),
                        actions |-> [is_scrolling |-> FALSE,
                                     scroll_direction |-> "none"]]
        swipe == IF SwipeModeActive(stable_gesture_mode)
                 THEN _handle_swipe_mode(scroll.self, palm_center, current_time)
                 ELSE [self |-> _reset_swipe_variables(scroll.self),
                       actions |-> [is_swiping |-> FALSE,
                                    swipe_direction |-> "none"]]
    IN [classifier |-> click.self,
        detector |-> swipe.self,
        actions |-> [is_clicking |-> click.actions.is_clicking,
                     is_right_clicking |-> click.actions.is_right_clicking,
                     is_double_clicking |-> click.actions.is_double_clicking,
                     is_scrolling |-> scroll.actions.is_scrolling,
                     is_swiping |-> swipe.actions.is_swiping,
                     swipe_direction |-> swipe.actions.swipe_direction,
                     scroll_direction |-> scroll.actions.scroll_direction]]

\* GestureDetector.update_config (the detector's part)
update_config(self, config) == [self EXCEPT !.config = config]

-----------------------------------------------------------------------------
(* Landmarks and the facade *)

One == 2     \* the 1.0 of "1.0 - palm_center[0]", in palm units (x ranges over 0..2)

\* A hand of 21 landmarks around palm (landmark 9): every MCP at the palm's
\* height, an extended finger's tip 3 above it, the thumb tip level with the
\* index tip at thumb_index_distance from it, and the middle tip at
\* thumb_middle_distance from the thumb tip (at 5 when it is not level with it).
Hand(palm, fs, thumb_index_distance, thumb_middle_distance) ==
    LET tipY(ext) == IF ext THEN palm[2] - 3 ELSE palm[2]
        yI == tipY(fs.index_extended)
        yM == tipY(fs.middle_extended)
    IN [i \in 1..21 |->
          CASE i = 5  -> <<0, yI, 0>>                    \* landmark 4: thumb tip
            [] i = 9  -> <<thumb_index_distance, yI, 0>> \* landmark 8: index tip
            [] i = 10 -> palm                            \* landmark 9: middle MCP
            [] i = 13 -> IF yM = yI THEN <<0, yM, thumb_middle_distance>>
                                    ELSE <<0, yM, 4>>    \* landmark 12: middle tip
            [] i = 17 -> <<0, tipY(fs.ring_extended), 0>>   \* landmark 16
            [] i = 21 -> <<0, tipY(fs.pinky_extended), 0>>  \* landmark 20
            [] OTHER  -> <<0, palm[2], 0>>]

\* Finger states of the four modes: open hand, fist, two fingers, one finger
HandShapes ==
    {fs \in FingerStates :
        /\ fs.ring_extended = fs.pinky_extended
        /\ fs.ring_extended => fs.index_extended /\ fs.middle_extended
        /\ fs.middle_extended => fs.index_extended}

AHand == Hand(<<1, 0, 0>>, [index_extended |-> TRUE, middle_extended |-> FALSE, ring_extended |-> FALSE, pinky_extended |-> FALSE], 3, 3)
WellFormed == {Hand(<<1, 0, 0>>, fs, 3, 3) : fs \in HandShapes} \cup {[AHand EXCEPT ![10] = <<0, 0, 0>>]}
Malformed == {SubSeq(AHand, 1, 9), SubSeq(AHand, 1, 20), Append(AHand, <<0, 0, 0>>)}
LandmarkSets == WellFormed \cup Malformed

\* landmarks[i] of the code (0-based); an index past the end raises IndexError
At(landmarks, i) == landmarks[i + 1]

\* GestureDetector._calculate_distance
_calculate_distance(point1, point2) ==
    Sqrt((point1[1] - point2[1]) * (point1[1] - point2[1])
         + (point1[2] - point2[2]) * (point1[2] - point2[2])
         + (point1[3] - point2[3]) * (point1[3] - point2[3]))

\* GestureDetector._get_finger_state
_get_finger_state(self, landmarks) ==
    LET finger_threshold == self.config.finger_threshold
    IN [index_extended |-> At(landmarks, 8)[2] < At(landmarks, 5)[2] - finger_threshold,
        middle_extended |-> At(landmarks, 12)[2] < At(landmarks, 9)[2] - finger_threshold,
        ring_extended |-> At(landmarks, 16)[2] < At(landmarks, 13)[2] - finger_threshold,
        pinky_extended |-> At(landmarks, 20)[2] < At(landmarks, 17)[2] - finger_threshold]

\* GestureDetector._get_thumb_distance
_get_thumb_distance(landmarks) ==
    [thumb_index_distance |-> _calculate_distance(At(landmarks, 4), At(landmarks, 8)),
     thumb_middle_distance |-> _calculate_distance(At(landmarks, 4), At(landmarks, 12))]

\* The highest index detect_gestures reads (landmarks[20], in _get_finger_state)
HighestIndexRead == 20

\* Parameters handle_mode_change declares after self, and arguments the call in
\* detect_gestures passes: Python raises TypeError when they differ
HandleModeChangeParameters == 1
HandleModeChangeArguments == 2
\* The call with as many arguments as handle_mode_change declares
CallAccepted == FALSE

CallRaisesTypeError == HandleModeChangeArguments # HandleModeChangeParameters

\* detect_gestures whose error comes only after the mode change and the
\* history record of the frame
detect_gestures_raises_late(cls, self, landmarks, current_time) ==
    IF Len(landmarks) <= HighestIndexRead
    THEN [raised |-> TRUE, classifier |-> cls, detector |-> self,
          palm_center |-> None, gesture_mode |-> "", actions |-> DefaultActions]
    ELSE LET finger_state == _get_finger_state(self, landmarks)
             gesture_mode == classify_gesture(cls, finger_state,
                                 _get_thumb_distance(landmarks).thumb_middle_distance)
             cls1 == handle_mode_change(cls, gesture_mode)
         IN [raised |-> TRUE,
             classifier |-> _add_to_history(cls1, gesture_mode, current_time, finger_state),
             detector |-> self,
             palm_center |-> None, gesture_mode |-> "", actions |-> DefaultActions]

\* GestureDetector.detect_gestures: whether it raised GestureError, the new
\* classifier and detector, and the GestureData returned
detect_gestures(cls, self, landmarks, current_time) ==
    IF Len(landmarks) <= HighestIndexRead \/ CallRaisesTypeError
    THEN [raised |-> TRUE, classifier |-> cls, detector |-> self,
          palm_center |-> None, gesture_mode |-> "", actions |-> DefaultActions]
    ELSE LET palm_center == At(landmarks, 9)
             finger_state == _get_finger_state(self, landmarks)
             thumb_distance == _get_thumb_distance(landmarks)
             gesture_mode == classify_gesture(cls, finger_state,
                                              thumb_distance.thumb_middle_distance)
             cls1 == handle_mode_change(cls, gesture_mode)
             stable_gesture_mode == get_stable_gesture_mode(cls1, gesture_mode)
             cls2 == add_to_gesture_history(cls1,
                         [mode |-> stable_gesture_mode, timestamp |-> current_time,
                          finger_states |-> finger_state])
             r == _detect_gesture_actions(cls2, self, stable_gesture_mode,
                         thumb_distance.thumb_index_distance,
                         thumb_distance.thumb_middle_distance, current_time, palm_center)
         IN [raised |-> FALSE, classifier |-> r.classifier, detector |-> r.detector,
             palm_center |-> <<One - palm_center[1], palm_center[2], palm_center[3]>>,
             gesture_mode |-> stable_gesture_mode, actions |-> r.actions]

-----------------------------------------------------------------------------
(* MouseController *)

\* Palm coordinates are in halves (0, 0.5, 1.0), smoothed_x and smoothed_y in
\* eighths: SmoothedScale steps of the smoothed value make one palm unit.
SmoothedScale == 4

\* smoothing * 0.8, in halves: smoothing 0.0 and 0.625
SmoothingFactors == {0, 1}
FullFactor == 2

\* "min_movement_threshold = 0.001": below one step of the smoothed value
min_movement_threshold == 1

\* pyautogui.size(), and the margin kept from the screen's edge
screen_width == 6
screen_height == 4
margin == 1

\* Pixels moved per step of the smoothed value (screen size times sensitivity)
PixelsPerStep == 1

\* Where the cursor is when the controller is constructed
CursorStart == <<1, 1>>

\* Palm centres handed to the controller
MousePalms == {<<x, y, 0>> : x \in 0..2, y \in 0..1}

\* Division that rounds toward zero
Trunc(n, d) == IF n >= 0 THEN n \div d ELSE 0 - ((0 - n) \div d)

Max(a, b) == IF a > b THEN a ELSE b

\* MouseController.__init__ (cursor: the position pyautogui reports)
MouseInit ==
    [prev_palm_x |-> None, prev_palm_y |-> None,
     is_initialized |-> FALSE,
     smoothed_x |-> 0, smoothed_y |-> 0,
     current_state |-> <<0, 0>>,
     cursor |-> CursorStart]

\* The exponential moving average of update_mouse_position
Smoothed(smoothed, delta, smoothing_factor) ==
    Trunc(smoothed * (FullFactor - smoothing_factor)
          + delta * SmoothedScale * smoothing_factor, FullFactor)

\* Clamp that keeps the cursor on the screen, without a margin
Clamp_to_screen(new, size) == Max(0, Min(new, size - 1))

\* "max(margin, min(new_x, self.screen_width - margin - 1))", for either axis
Clamp(new, size) == Max(margin, Min(new, size - margin - 1))

\* MoveMode that lets CLICK mode move the cursor, too
MoveMode_or_click(gesture_mode) == gesture_mode \in {MOVE, CLICK}

\* "if gesture_mode != GestureType.MOVE: ... return", negated
MoveMode(gesture_mode) == gesture_mode = MOVE

\* MouseController.update_mouse_position: the new controller and whether
\* pyautogui.moveTo was called
update_mouse_position(self, palm_center, gesture_mode, smoothing_factor, invert_x, invert_y) ==
    LET current_palm_x == IF invert_x THEN One - palm_center[1] ELSE palm_center[1]
        current_palm_y == IF invert_y THEN One - palm_center[2] ELSE palm_center[2]
    IN IF ~self.is_initialized
       THEN [self |-> [self EXCEPT !.prev_palm_x = current_palm_x,
                                   !.prev_palm_y = current_palm_y,
                                   !.is_initialized = TRUE],
             moved |-> FALSE]
       ELSE IF ~MoveMode(gesture_mode)
       THEN [self |-> [self EXCEPT !.prev_palm_x = current_palm_x,
                                   !.prev_palm_y = current_palm_y],
             moved |-> FALSE]
       ELSE LET delta_x == current_palm_x - self.prev_palm_x
                delta_y == current_palm_y - self.prev_palm_y
                sx == Smoothed(self.smoothed_x, delta_x, smoothing_factor)
                sy == Smoothed(self.smoothed_y, delta_y, smoothing_factor)
                new_x == Clamp(self.cursor[1] + sx * PixelsPerStep, screen_width)
                new_y == Clamp(self.cursor[2] + sy * PixelsPerStep, screen_height)
            IN IF Abs(sx) < min_movement_threshold /\ Abs(sy) < min_movement_threshold
               THEN [self |-> [self EXCEPT !.smoothed_x = sx,
                                           !.smoothed_y = sy,
                                           !.prev_palm_x = current_palm_x,
                                           !.prev_palm_y = current_palm_y],
                     moved |-> FALSE]
               ELSE [self |-> [self EXCEPT !.smoothed_x = sx,
                                           !.smoothed_y = sy,
                                           !.cursor = <<new_x, new_y>>,
                                           !.prev_palm_x = current_palm_x,
                                           !.prev_palm_y = current_palm_y,
                                           !.current_state = <<new_x, new_y>>],
                     moved |-> TRUE]

\* MouseController.reset_state
reset_state(self) ==
    [self EXCEPT !.current_state = <<0, 0>>,
                 !.prev_palm_x = None,
                 !.prev_palm_y = None,
                 !.is_initialized = FALSE,
                 !.smoothed_x = 0,
                 !.smoothed_y = 0]

-----------------------------------------------------------------------------
(* CameraPanel: one pass of the display loop *)

\* What hand_detector.detect_hands may return for one camera frame
HandLists ==
    UNION {[1..n -> WellFormed] : n \in 0..MaxHands}

\* An exception raised in the body of "for hand_landmarks in ..." never reaches
\* the next hand
LoopGoesOnAfterError(raised) == FALSE

\* An exception raised in the body of "for hand_landmarks in hand_landmarks_list"
\* leaves the loop: the try (panel.py) is around the whole loop, and
\* display_loop (pyqt_main_window.py) has none
LoopLeftOnError(raised) == raised

\* The for loop over the detected hands, from hand i on: detect_gestures, then
\* update_mouse_position with the GestureData (the click, scroll and swipe
\* handlers that follow do not touch the detector).  calls counts the calls
\* of detect_gestures made, done the hands whose body ran to its end.
RECURSIVE DisplayHands(_, _, _, _, _, _, _, _)
DisplayHands(cls, self, ms, hand_landmarks_list, i, current_time, calls, done) ==
    IF i > Len(hand_landmarks_list)
    THEN [classifier |-> cls, detector |-> self, mouse |-> ms,
          raised |-> FALSE, detect_calls |-> calls, hands_done |-> done]
    ELSE LET AfterHand(r) ==
                 IF LoopLeftOnError(r.raised)
                 THEN [classifier |-> r.classifier, detector |-> r.detector, mouse |-> ms,
                       raised |-> TRUE, detect_calls |-> calls + 1, hands_done |-> done]
                 ELSE IF r.raised
                 THEN DisplayHands(r.classifier, r.detector, ms, hand_landmarks_list,
                                   i + 1, current_time, calls + 1, done)
                 ELSE DisplayHands(r.classifier, r.detector,
                                   update_mouse_position(ms, r.palm_center, r.gesture_mode,
                                                         1, FALSE, FALSE).self,
                                   hand_landmarks_list, i + 1, current_time,
                                   calls + 1, done + 1)
         IN AfterHand(detect_gestures(cls, self, hand_landmarks_list[i], current_time))

-----------------------------------------------------------------------------
(* HandTracker, the one-class variant of src/src/core/hand_tracker.py *)

STOP == "stop"

\* HandTracker._init_gesture_variables; motion holds the scroll and swipe
\* variables and the configuration they are read with (the module-level
\* config.gesture, which the tracker is built with at its defaults)
TrackerInit(config) ==
    [motion |-> DetectorInit(config),
     current_gesture_mode |-> STOP,
     is_mode_stable |-> FALSE,
     gesture_history |-> <<>>,
     last_click_time |-> 0,
     click_count |-> 0,
     thumb_index_touching |-> FALSE,
     thumb_middle_touching |-> FALSE]

\* The first test of HandTracker._detect_gesture_mode: a thumb touching the
\* index or the middle finger, with ring and pinky extended
ClickModeEntered(self, finger_states, thumb_index_distance, thumb_middle_distance) ==
    /\ \/ thumb_index_distance < self.motion.config.click_threshold
       \/ thumb_middle_distance < self.motion.config.click_threshold
    /\ finger_states.ring_extended /\ finger_states.pinky_extended

\* HandTracker._detect_gesture_mode
HandTracker_detect_gesture_mode(self, finger_states, thumb_index_distance, thumb_middle_distance) ==
    IF ClickModeEntered(self, finger_states, thumb_index_distance, thumb_middle_distance)
    THEN CLICK
    ELSE IF /\ finger_states.index_extended /\ finger_states.middle_extended
            /\ finger_states.ring_extended /\ finger_states.pinky_extended
    THEN STOP
    ELSE IF /\ ~finger_states.index_extended /\ ~finger_states.middle_extended
            /\ ~finger_states.ring_extended /\ ~finger_states.pinky_extended
    THEN SWIPE
    ELSE IF /\ finger_states.index_extended /\ finger_states.middle_extended
            /\ ~finger_states.ring_extended /\ ~finger_states.pinky_extended
    THEN SCROLL
    ELSE IF /\ finger_states.index_extended /\ ~finger_states.middle_extended
            /\ ~finger_states.ring_extended /\ ~finger_states.pinky_extended
    THEN MOVE
    ELSE STOP

\* HandTracker._handle_click_detection
HandTracker_handle_click_detection(self, thumb_index_distance, thumb_middle_distance, current_time, finger_states) ==
    LET click_threshold == self.motion.config.click_threshold
        ring_pinky_extended == finger_states.ring_extended /\ finger_states.pinky_extended
        left ==
            IF thumb_index_distance < click_threshold
            THEN [self |-> [self EXCEPT !.thumb_index_touching = TRUE],
                  is_clicking |-> FALSE, is_double_clicking |-> FALSE]
            ELSE IF self.thumb_index_touching /\ ring_pinky_extended
            THEN LET edge == LeftClickEdge(self, current_time)
                 IN [self |-> [self EXCEPT !.click_count = edge.click_count,
                                           !.last_click_time = edge.last_click_time,
                                           !.thumb_index_touching = FALSE],
                     is_clicking |-> TRUE,
                     is_double_clicking |-> edge.is_double_clicking]
            ELSE [self |-> [self EXCEPT !.thumb_index_touching = FALSE],
                  is_clicking |-> FALSE, is_double_clicking |-> FALSE]
        right ==
            IF thumb_middle_distance < click_threshold
            THEN [self |-> [left.self EXCEPT !.thumb_middle_touching = TRUE],
                  is_right_clicking |-> FALSE]
            ELSE [self |-> [left.self EXCEPT !.thumb_middle_touching = FALSE],
                  is_right_clicking |-> left.self.thumb_middle_touching
                                        /\ ring_pinky_extended]
    IN [self |-> right.self,
        actions |-> [is_clicking |-> left.is_clicking,
                     is_right_clicking |-> right.is_right_clicking,
                     is_double_clicking |-> left.is_double_clicking]]

\* HandTracker._detect_gesture_actions (palm_center = current_landmarks[9])
HandTracker_detect_gesture_actions(self, stable_gesture_mode, thumb_index_distance, thumb_middle_distance, current_time, finger_states, palm_center) ==
    LET click == IF stable_gesture_mode = CLICK
                 THEN HandTracker_handle_click_detection(self, thumb_index_distance,
                          thumb_middle_distance, current_time, finger_states)
                 ELSE [self |-> [self EXCEPT !.thumb_index_touching = FALSE,
                                             !.thumb_middle_touching = FALSE],
                       actions |-> [is_clicking |-> FALSE,
                                    is_right_clicking |-> FALSE,
                                    is_double_clicking |-> FALSE]]
        scroll == IF stable_gesture_mode = SCROLL /\ self.is_mode_stable
                  THEN _handle_scroll_mode(self.motion, palm_center)
                  ELSE [self |-> _reset_scroll_variables(self.motion),
                        actions |-> [is_scrolling |-> FALSE,
                                     scroll_direction |-> "none"]]
        swipe == IF stable_gesture_mode = SWIPE /\ self.is_mode_stable
                 THEN _handle_swipe_mode(scroll.self, palm_center, current_time)
                 ELSE [self |-> _reset_swipe_variables(scroll.self),
                       actions |-> [is_swiping |-> FALSE,
                                    swipe_direction |-> "none"]]
    IN [self |-> [click.self EXCEPT !.motion = swipe.self],
        actions |-> [is_clicking |-> click.actions.is_clicking,
                     is_right_clicking |-> click.actions.is_right_clicking,
                     is_double_clicking |-> click.actions.is_double_clicking,
                     is_scrolling |-> scroll.actions.is_scrolling,
                     is_swiping |-> swipe.actions.is_swiping,
                     swipe_direction |-> swipe.actions.swipe_direction,
                     scroll_direction |-> scroll.actions.scroll_direction]]

\* HandTracker.detect_gestures on the finger states, thumb distances and palm
\* read from the landmarks
HandTracker_detect_gestures(self, finger_states, thumb_index_distance, thumb_middle_distance, palm_center, current_time) ==
    LET gesture_mode == HandTracker_detect_gesture_mode(self, finger_states,
                            thumb_index_distance, thumb_middle_distance)
        changed == handle_mode_change(self, gesture_mode)
        stable_gesture_mode == get_stable_gesture_mode(changed, gesture_mode)
        recorded == _add_to_history(changed, stable_gesture_mode, current_time,
                                    finger_states)
        r == HandTracker_detect_gesture_actions(recorded, stable_gesture_mode,
                 thumb_index_distance, thumb_middle_distance, current_time,
                 finger_states, palm_center)
    IN [self |-> r.self, gesture_mode |-> stable_gesture_mode, actions |-> r.actions]

-----------------------------------------------------------------------------
(* CameraPanel: start_display, stop_display and the display threads *)

Threads == 1..MaxThreads

\* The two panels: "tk" is ui/panels/camera_panel/panel.py (stop_display joins
\* the thread for at most 1 s), "qt" is ui/main_window/pyqt_main_window.py
\* (stop_display does not join).  A thread is "new" before it is created,
\* then "started", at the "test" of its while loop, in a "pass", or "ended".
\* gui is where the GUI thread is: "idle" or in the "join" of stop_display.
PanelInit ==
    {[variant |-> v, is_displaying |-> FALSE, display_thread |-> 0,
      pc |-> [t \in Threads |-> "new"], gui |-> "idle"] : v \in {"tk", "qt"}}

\* Threads that are alive and in their while loop
Looping(p) == {t \in Threads : p.pc[t] \in {"test", "pass"}}

\* start_display: nothing when already displaying; on the tk panel the camera
\* may fail to reopen, and no thread is created
start_display(p, t, camera_ok) ==
    IF p.is_displaying THEN p
    ELSE IF p.variant = "tk" /\ ~camera_ok THEN [p EXCEPT !.is_displaying = FALSE]
    ELSE [p EXCEPT !.is_displaying = TRUE,
                   !.display_thread = t,
                   !.pc[t] = "started"]

\* stop_display up to its join: the tk panel joins a live thread, the qt panel
\* only clears the flag
stop_display(p) ==
    IF p.variant = "qt" THEN [p EXCEPT !.is_displaying = FALSE]
    ELSE IF ~p.is_displaying THEN p
    ELSE [p EXCEPT !.is_displaying = FALSE,
                   !.gui = IF p.display_thread # 0
                              /\ p.pc[p.display_thread] # "ended"
                           THEN "join" ELSE "idle"]

-----------------------------------------------------------------------------
(* The state machine *)

NoCall ==
    [op |-> "", mode |-> "", thumb_index_distance |-> 0, thumb_middle_distance |-> 0,
     palm_center |-> None, n_landmarks |-> 0, finger_state |-> <<>>,
     delta_x |-> 0, delta_y |-> 0, min_distance |-> 0,
     config |-> None, after_update |-> FALSE, n_hands |-> 0,
     gesture_info |-> None, prev_len |-> 0, prev_mode |-> "", reference |-> None]
NoOut ==
    [raised |-> FALSE, palm_center |-> None, gesture_mode |-> "",
     actions |-> DefaultActions, direction |-> NoDirection, moved |-> FALSE,
     detect_calls |-> 0, hands_done |-> 0, swipe_direction |-> NoDirection,
     mode_absent |-> FALSE]

\* No event reported yet
NoHistory ==
    [left_edge_at |-> -1, swipe_at |-> -1, swipes |-> 0, frames_since_scroll |-> -1,
     touch_dropped |-> 0, quiet_from |-> None]

\* Where the frame counter of the history stops counting
GapCap ==
    LET N == {c.scroll_required_frames : c \in ConfigSet}
    IN 1 + CHOOSE m \in N : \A n \in N : n <= m

\* What became of a touch that was on when the mode left CLICK: 1 after a frame
\* in another mode that found a touch flag set (and until CLICK mode is back),
\* 2 after the first CLICK frame that follows, 0 otherwise
Dropped(mode) ==
    IF mode # CLICK
    THEN (IF \/ classifier.thumb_index_touching
             \/ classifier.thumb_middle_touching
             \/ ghost.touch_dropped = 1
          THEN 1 ELSE 0)
    ELSE (IF ghost.touch_dropped = 1 THEN 2 ELSE 0)

\* Where the palm was when the present quiet run of SCROLL frames began: a run
\* of consecutive SCROLL frames each within scroll_distance_threshold of the
\* frame before, on both axes (None outside such a run)
QuietFrom(mode, palm_center) ==
    IF mode # SCROLL THEN None
    ELSE IF /\ call.op = "_detect_gesture_actions" /\ call.mode = SCROLL
            /\ ghost.quiet_from # None
            /\ Abs(palm_center[1] - call.palm_center[1])
                   <= detector.config.scroll_distance_threshold
            /\ Abs(palm_center[2] - call.palm_center[2])
                   <= detector.config.scroll_distance_threshold
    THEN ghost.quiet_from
    ELSE palm_center

\* The history after a frame that reported actions at current_time
Remember(actions, current_time) ==
    [left_edge_at |-> IF actions.is_clicking THEN current_time ELSE ghost.left_edge_at,
     swipe_at |-> IF actions.is_swiping THEN current_time ELSE ghost.swipe_at,
     swipes |-> IF actions.is_swiping THEN Min(ghost.swipes + 1, 2) ELSE ghost.swipes,
     touch_dropped |-> ghost.touch_dropped,
     quiet_from |-> ghost.quiet_from,
     frames_since_scroll |->
        IF actions.is_scrolling THEN 0
        ELSE IF ghost.frames_since_scroll = -1 THEN -1
        ELSE Min(ghost.frames_since_scroll + 1, GapCap)]

InitWith(panels) ==
    \E config \in ConfigSet :
        /\ classifier = ClassifierInit(config)
        /\ detector = DetectorInit(config)
        /\ now = 0
        /\ session \in Sessions
        /\ ghost = NoHistory
        /\ call = NoCall
        /\ out = NoOut
        /\ mouse = MouseInit
        /\ panel \in panels
        /\ tracker = TrackerInit(DefaultConfig)

\* The application with the camera panel of ui/panels/camera_panel/panel.py
Init == InitWith({p \in PanelInit : p.variant = "tk"})

\* time.time() of a call: the clock does not run backwards, and advances by
\* at most the double-click window from one call to the next
Clock == now..Min(now + DoubleClickWindow, MaxTime)

\* A frame through detect_gestures
DetectGestures ==
    \E landmarks \in LandmarkSets, current_time \in Clock :
        LET r == detect_gestures(classifier, detector, landmarks, current_time)
        IN /\ r.detector.scroll_frame_count <= MaxCount
           /\ r.detector.swipe_frame_count <= MaxCount
           /\ classifier' = r.classifier
           /\ detector' = r.detector
           /\ now' = current_time
           /\ UNCHANGED <<session, mouse, panel, tracker>>
           /\ ghost' = IF r.raised THEN ghost ELSE Remember(r.actions, current_time)
           /\ call' = [NoCall EXCEPT !.op = "detect_gestures",
                                     !.n_landmarks = Len(landmarks),
                                     !.palm_center = IF Len(landmarks) > 9
                                                     THEN At(landmarks, 9) ELSE None]
           /\ out' = [NoOut EXCEPT !.raised = r.raised,
                                   !.palm_center = r.palm_center,
                                   !.gesture_mode = r.gesture_mode,
                                   !.actions = r.actions]

\* The arguments of _detect_gesture_actions a mode's branches read: the thumb
\* distances in CLICK mode, landmarks[9] in SCROLL and SWIPE mode
DistancesRead(mode) == IF mode = CLICK THEN Distances ELSE {0}
PalmsRead(mode) == IF mode \in {SCROLL, SWIPE} THEN Palms ELSE {None}

\* A frame's fan-out: _detect_gesture_actions with a stabilized mode
DetectGestureActions ==
    \E mode \in session, current_time \in Clock :
      \E ti \in DistancesRead(mode), tm \in DistancesRead(mode), palm \in PalmsRead(mode) :
        LET r == _detect_gesture_actions(classifier, detector, mode, ti, tm,
                                         current_time, palm)
        IN /\ r.detector.scroll_frame_count <= MaxCount
           /\ r.detector.swipe_frame_count <= MaxCount
           /\ classifier' = r.classifier
           /\ detector' = r.detector
           /\ now' = current_time
           /\ UNCHANGED <<session, mouse, panel, tracker>>
           /\ ghost' = [Remember(r.actions, current_time) EXCEPT
                            !.touch_dropped = Dropped(mode),
                            !.quiet_from = QuietFrom(mode, palm)]
           /\ call' = [NoCall EXCEPT !.op = "_detect_gesture_actions",
                                     !.mode = mode,
                                     !.thumb_index_distance = ti,
                                     !.thumb_middle_distance = tm,
                                     !.palm_center = palm,
                                     !.after_update = (call.op = "update_config")]
           /\ out' = [NoOut EXCEPT !.actions = r.actions]

\* GestureDetector.update_config with another configuration
UpdateConfig ==
    \E config \in ConfigSet \ {detector.config} :
        /\ detector' = update_config(detector, config)
        /\ classifier' = classifier_update_config(classifier, config)
        /\ call' = [NoCall EXCEPT !.op = "update_config", !.config = config]
        /\ out' = NoOut
        /\ UNCHANGED <<now, session, ghost, mouse, panel, tracker>>

\* classify_gesture on its own
ClassifyGesture ==
    \E fs \in FingerStates, tm \in Distances :
        /\ call' = [NoCall EXCEPT !.op = "classify_gesture",
                                  !.finger_state = fs,
                                  !.thumb_middle_distance = tm]
        /\ out' = [NoOut EXCEPT !.gesture_mode = classify_gesture(classifier, fs, tm)]
        /\ UNCHANGED <<classifier, detector, now, session, ghost, mouse, panel, tracker>>

\* get_stable_gesture_mode on its own
GetStableGestureMode ==
    \E current_mode \in GestureType :
        /\ call' = [NoCall EXCEPT !.op = "get_stable_gesture_mode",
                                  !.mode = current_mode,
                                  !.prev_len = Len(classifier.gesture_history)]
        /\ out' = [NoOut EXCEPT !.gesture_mode =
                       get_stable_gesture_mode(classifier, current_mode)]
        /\ UNCHANGED <<classifier, detector, now, session, ghost, mouse, panel, tracker>>

\* _add_to_history on its own, with the record of a classified frame of the
\* session
AddToHistory ==
    \E fs \in HandShapes, tm \in Distances, current_time \in now..Min(now + 1, MaxTime) :
        LET gesture_mode == classify_gesture(classifier, fs, tm)
            stable_gesture_mode == get_stable_gesture_mode(classifier, gesture_mode)
            cls == _add_to_history(classifier, stable_gesture_mode, current_time, fs)
        IN /\ stable_gesture_mode \in session
           /\ classifier' = cls
           /\ now' = current_time
           /\ call' = [NoCall EXCEPT !.op = "_add_to_history",
                                     !.mode = stable_gesture_mode,
                                     !.gesture_info = cls.gesture_history[Len(cls.gesture_history)],
                                     !.prev_len = Len(classifier.gesture_history)]
           /\ out' = NoOut
           /\ UNCHANGED <<detector, session, ghost, mouse, panel, tracker>>

\* The classifier's part of a frame, in the order of detect_gestures:
\* classify_gesture, handle_mode_change (with the one argument it declares),
\* get_stable_gesture_mode, _add_to_history
ClassifyFrame ==
    \E fs \in HandShapes, tm \in Distances, current_time \in now..Min(now + 1, MaxTime) :
        LET gesture_mode == classify_gesture(classifier, fs, tm)
            changed == handle_mode_change(classifier, gesture_mode)
            stable_gesture_mode == get_stable_gesture_mode(changed, gesture_mode)
            cls == _add_to_history(changed, stable_gesture_mode, current_time, fs)
        IN /\ gesture_mode \in session
           /\ classifier' = cls
           /\ now' = current_time
           /\ call' = [NoCall EXCEPT !.op = "classify_frame",
                                     !.mode = gesture_mode,
                                     !.prev_len = Len(changed.gesture_history),
                                     !.prev_mode = classifier.current_gesture_mode]
           /\ out' = [NoOut EXCEPT !.gesture_mode = stable_gesture_mode,
                                   !.mode_absent =
                                       ModeAbsentFromRecent(changed, gesture_mode)]
           /\ UNCHANGED <<detector, session, ghost, mouse, panel, tracker>>

\* handle_mode_change on its own, called with the one argument it declares
HandleModeChange ==
    \E gesture_mode \in GestureType :
        /\ classifier' = handle_mode_change(classifier, gesture_mode)
        /\ call' = [NoCall EXCEPT !.op = "handle_mode_change",
                                  !.mode = gesture_mode,
                                  !.prev_len = Len(classifier.gesture_history),
                                  !.prev_mode = classifier.current_gesture_mode]
        /\ out' = NoOut
        /\ UNCHANGED <<detector, now, session, ghost, mouse, panel, tracker>>

\* _get_movement_direction on its own
GetMovementDirection ==
    \E delta_x \in -MaxDelta..MaxDelta, delta_y \in -MaxDelta..MaxDelta,
       min_distance \in 0..MaxDelta :
        /\ call' = [NoCall EXCEPT !.op = "_get_movement_direction",
                                  !.delta_x = delta_x,
                                  !.delta_y = delta_y,
                                  !.min_distance = min_distance]
        /\ out' = [NoOut EXCEPT !.direction =
                        _get_movement_direction(delta_x, delta_y, min_distance)]
        /\ UNCHANGED <<classifier, detector, now, session, ghost, mouse, panel, tracker>>

\* Palm positions over the whole grid, for the direction of a frame
GridPalms == {<<x, y, 0>> : x \in 0..MaxDelta, y \in 0..MaxDelta}

\* The configurations that differ from the default in the inversion flags and
\* the distance thresholds
InversionConfigs ==
    {[DefaultConfig EXCEPT
          !.invert_scroll_x = ix, !.invert_scroll_y = iy,
          !.invert_swipe_x = jx, !.invert_swipe_y = jy,
          !.scroll_distance_threshold = scroll_threshold,
          !.swipe_distance_threshold = swipe_threshold] :
       ix \in Bool, iy \in Bool, jx \in Bool, jy \in Bool,
       scroll_threshold \in 0..MaxDelta, swipe_threshold \in 0..MaxDelta}

\* GestureDetector.update_config with other inversion flags and thresholds
UpdateInversion ==
    \E config \in InversionConfigs \ {detector.config} :
        /\ detector' = update_config(detector, config)
        /\ classifier' = classifier_update_config(classifier, config)
        /\ call' = [NoCall EXCEPT !.op = "update_config", !.config = config]
        /\ out' = NoOut
        /\ UNCHANGED <<now, session, ghost, mouse, panel, tracker>>

\* The direction computed by _handle_scroll_mode and by _handle_swipe_mode for
\* one movement of the palm from a stored reference, under the configuration
\* in force
HandlerDirections ==
    \E reference \in Palms, palm_center \in GridPalms :
        LET self == [detector EXCEPT !.scroll_palm_position = reference,
                                     !.swipe_palm_position = reference]
        IN /\ call' = [NoCall EXCEPT !.op = "handler_directions",
                                     !.palm_center = palm_center,
                                     !.reference = reference,
                                     !.config = detector.config]
           /\ out' = [NoOut EXCEPT !.direction = ScrollDirection(self, palm_center),
                                   !.swipe_direction = SwipeDirection(self, palm_center)]
           /\ UNCHANGED <<classifier, detector, now, session, ghost, mouse, panel, tracker>>

\* The hands shown to the HandTracker: open (all four fingers extended), and
\* a fist
TrackerShapes ==
    {fs \in HandShapes : fs.pinky_extended \/ ~fs.index_extended}

\* A frame through HandTracker.detect_gestures
TrackerDetectGestures ==
    \E finger_states \in TrackerShapes, ti \in Distances, tm \in Distances,
       palm_center \in {AHand[10]}, current_time \in now..Min(now + 1, MaxTime) :
        LET r == HandTracker_detect_gestures(tracker, finger_states, ti, tm,
                                             palm_center, current_time)
        IN /\ r.self.motion.scroll_frame_count <= MaxCount
           /\ r.self.motion.swipe_frame_count <= MaxCount
           /\ tracker' = r.self
           /\ now' = current_time
           /\ call' = [NoCall EXCEPT !.op = "HandTracker.detect_gestures",
                                     !.finger_state = finger_states,
                                     !.thumb_index_distance = ti,
                                     !.thumb_middle_distance = tm]
           /\ out' = [NoOut EXCEPT !.gesture_mode = r.gesture_mode,
                                   !.actions = r.actions]
           /\ UNCHANGED <<classifier, detector, session, ghost, mouse, panel>>

\* MouseController.update_mouse_position with a frame's palm centre and mode
UpdateMousePosition ==
    \E palm_center \in MousePalms, gesture_mode \in GestureType,
       smoothing_factor \in SmoothingFactors, invert_x \in Bool, invert_y \in Bool :
        LET r == update_mouse_position(mouse, palm_center, gesture_mode,
                                       smoothing_factor, invert_x, invert_y)
        IN /\ mouse' = r.self
           /\ call' = [NoCall EXCEPT !.op = "update_mouse_position",
                                     !.mode = gesture_mode]
           /\ out' = [NoOut EXCEPT !.moved = r.moved]
           /\ UNCHANGED <<classifier, detector, now, session, ghost, panel, tracker>>

\* The user's own mouse takes the pointer to the top-left corner of the screen,
\* outside the margin on both axes: the place pyautogui.position() reports next
PointerPlaces == {<<0, 0>>}

PointerMoves ==
    \E position \in PointerPlaces :
        /\ mouse.is_initialized
        /\ mouse' = [mouse EXCEPT !.cursor = position]
        /\ call' = [NoCall EXCEPT !.op = "pointer"]
        /\ out' = NoOut
        /\ UNCHANGED <<classifier, detector, now, session, ghost, panel, tracker>>

\* MouseController.reset_state
ResetState ==
    /\ mouse' = reset_state(mouse)
    /\ call' = [NoCall EXCEPT !.op = "reset_state"]
    /\ out' = NoOut
    /\ UNCHANGED <<classifier, detector, now, session, ghost, panel, tracker>>

\* One pass of the display loop over a camera frame with its detected hands
DisplayPass ==
    \E hand_landmarks_list \in HandLists, current_time \in Clock :
      \E r \in {DisplayHands(classifier, detector, mouse, hand_landmarks_list, 1,
                              current_time, 0, 0)} :
           /\ r.detector.scroll_frame_count <= MaxCount
           /\ r.detector.swipe_frame_count <= MaxCount
           /\ classifier' = r.classifier
           /\ detector' = r.detector
           /\ mouse' = r.mouse
           /\ now' = current_time
           /\ call' = [NoCall EXCEPT !.op = "display_pass",
                                     !.n_hands = Len(hand_landmarks_list)]
           /\ out' = [NoOut EXCEPT !.raised = r.raised,
                                   !.detect_calls = r.detect_calls,
                                   !.hands_done = r.hands_done]
           /\ UNCHANGED <<session, ghost, panel, tracker>>

\* The GUI thread calls start_display
StartDisplay ==
    /\ panel.gui = "idle"
    /\ \E t \in Threads, camera_ok \in Bool :
          /\ panel.pc[t] = "new"
          /\ \A u \in Threads : u < t => panel.pc[u] # "new"
          /\ panel' = start_display(panel, t, camera_ok)
    /\ call' = [NoCall EXCEPT !.op = "start_display"]
    /\ out' = NoOut
    /\ UNCHANGED <<classifier, detector, now, session, ghost, mouse, tracker>>

\* The GUI thread calls stop_display
StopDisplay ==
    /\ panel.gui = "idle"
    /\ panel' = stop_display(panel)
    /\ call' = [NoCall EXCEPT !.op = "stop_display"]
    /\ out' = NoOut
    /\ UNCHANGED <<classifier, detector, now, session, ghost, mouse, tracker>>

\* display_thread.join(timeout=1.0) returns: the thread has ended, or the
\* second is over
JoinReturns ==
    /\ panel.gui = "join"
    /\ panel' = [panel EXCEPT !.gui = "idle"]
    /\ call' = [NoCall EXCEPT !.op = "join"]
    /\ out' = NoOut
    /\ UNCHANGED <<classifier, detector, now, session, ghost, mouse, tracker>>

\* A display thread runs up to its while loop (the tk loop returns at once
\* when the camera is not open)
ThreadBegins ==
    /\ \E t \in Threads, camera_open \in Bool :
          /\ panel.pc[t] = "started"
          /\ panel' = [panel EXCEPT !.pc[t] =
                          IF panel.variant = "tk" /\ ~camera_open
                          THEN "ended" ELSE "test"]
    /\ call' = [NoCall EXCEPT !.op = "thread_begins"]
    /\ out' = NoOut
    /\ UNCHANGED <<classifier, detector, now, session, ghost, mouse, tracker>>

\* "while self.is_displaying:" read by a display thread
LoopTest ==
    /\ \E t \in Threads :
          /\ panel.pc[t] = "test"
          /\ panel' = [panel EXCEPT !.pc[t] =
                          IF panel.is_displaying THEN "pass" ELSE "ended"]
    /\ call' = [NoCall EXCEPT !.op = "loop_test"]
    /\ out' = NoOut
    /\ UNCHANGED <<classifier, detector, now, session, ghost, mouse, tracker>>

\* A display thread ends its pass: back to the test, or out of the loop by an
\* exception raised outside the inner try (on the qt panel, which has no try,
\* the one detect_gestures raises)
PassEnds ==
    /\ \E t \in Threads, raised \in Bool :
          /\ panel.pc[t] = "pass"
          /\ panel' = [panel EXCEPT !.pc[t] =
                          IF raised THEN "ended" ELSE "test"]
    /\ call' = [NoCall EXCEPT !.op = "pass_ends"]
    /\ out' = NoOut
    /\ UNCHANGED <<classifier, detector, now, session, ghost, mouse, tracker>>

\* Frames reach the action detectors through _detect_gesture_actions (a frame
\* through detect_gestures raises before it changes any field, see SpecFacade)
Next == DetectGestureActions \/ UpdateConfig
Spec == Init /\ [][Next]_vars

\* The configuration given at construction is never replaced
NextFixed == DetectGestureActions
SpecFixed == Init /\ [][NextFixed]_vars

\* The facade: frames through detect_gestures
NextFacade == DetectGestures \/ UpdateConfig
SpecFacade == Init /\ [][NextFacade]_vars

\* Frames through detect_gestures between frames of the action detectors
NextRaise == DetectGestures \/ DetectGestureActions
SpecRaise == Init /\ [][NextRaise]_vars

\* The detector's pure function
NextDirection == GetMovementDirection
SpecDirection == Init /\ [][NextDirection]_vars

\* The direction of a frame under the inversion flags
InitInversion == Init /\ detector.config = DefaultConfig /\ session = {SCROLL, MOVE}
NextInversion == HandlerDirections \/ UpdateInversion
SpecInversion == InitInversion /\ [][NextInversion]_vars

\* The HandTracker variant, frame after frame
InitTracker == Init /\ detector.config = DefaultConfig /\ session = {CLICK, MOVE}
NextTracker == TrackerDetectGestures
SpecTracker == InitTracker /\ [][NextTracker]_vars

\* The mouse controller, fed by a detector that is left alone
InitMouse == Init /\ detector.config = DefaultConfig /\ session = {CLICK, MOVE}
NextMouse == UpdateMousePosition \/ ResetState
SpecMouse == InitMouse /\ [][NextMouse]_vars

\* The mouse controller on a screen whose pointer the user moves, too
NextPointer == UpdateMousePosition \/ ResetState \/ PointerMoves
SpecPointer == InitMouse /\ [][NextPointer]_vars

\* The display loop, pass after pass
NextDisplay == DisplayPass \/ UpdateConfig
SpecDisplay == Init /\ [][NextDisplay]_vars

\* The panel's threads
InitThreads == InitWith(PanelInit) /\ detector.config = DefaultConfig /\ session = {CLICK, MOVE}
NextThreads ==
    \/ StartDisplay \/ StopDisplay \/ JoinReturns
    \/ ThreadBegins \/ LoopTest \/ PassEnds
SpecThreads == InitThreads /\ [][NextThreads]_vars

\* The classifier's gesture history
InitHistory == Init /\ detector.config = DefaultConfig
NextHistory == GetStableGestureMode \/ AddToHistory \/ HandleModeChange
SpecHistory == InitHistory /\ [][NextHistory]_vars

\* The classifier fed whole frames
NextFrames == ClassifyFrame
SpecFrames == InitHistory /\ [][NextFrames]_vars

\* The classifier's pure functions
NextClassify == ClassifyGesture \/ UpdateConfig
SpecClassify == Init /\ [][NextClassify]_vars

-----------------------------------------------------------------------------
(* Properties *)

\* The last step was a frame's fan-out, in the given mode
Frame(mode) == call.op = "_detect_gesture_actions" /\ call.mode = mode

\* C1: detect_gestures on 21 three-coordinate landmarks returns a GestureData
\* and raises no error, from every reachable state.
C1_DetectGesturesReturns ==
    (call.op = "detect_gestures" /\ call.n_landmarks = 21) => ~out.raised

\* The first-match-wins table of the mode classifier
C2_Reference(fs, thumb_middle_distance, click_threshold) ==
    CASE fs.pinky_extended -> CLICK
      [] ~fs.pinky_extended /\ ~fs.index_extended /\ ~fs.middle_extended
         /\ ~fs.ring_extended -> SWIPE
      [] ~fs.pinky_extended /\ ~fs.ring_extended /\ fs.index_extended
         /\ fs.middle_extended /\ thumb_middle_distance > click_threshold -> SCROLL
      [] ~fs.pinky_extended /\ ~fs.ring_extended /\ fs.index_extended
         /\ fs.middle_extended /\ thumb_middle_distance <= click_threshold -> CLICK
      [] ~fs.pinky_extended /\ ~fs.ring_extended /\ fs.index_extended
         /\ ~fs.middle_extended -> MOVE
      [] OTHER -> CLICK

\* C2: for all four finger flags and every thumb_middle_distance /
\* click_threshold pair, classify_gesture equals the first-match-wins
\* reference; a distance equal to the threshold gives CLICK.
C2_ClassifyFirstMatchWins ==
    call.op = "classify_gesture" =>
        out.gesture_mode = C2_Reference(call.finger_state, call.thumb_middle_distance,
                                        classifier.click_threshold)

\* Index and middle extended, thumb-middle distance equal to the threshold: CLICK
C2_Witness ==
    /\ call.op = "classify_gesture"
    /\ call.finger_state = [index_extended |-> TRUE, middle_extended |-> TRUE,
                            ring_extended |-> FALSE, pinky_extended |-> FALSE]
    /\ call.thumb_middle_distance = classifier.click_threshold
    /\ out.gesture_mode = CLICK

\* C3: is_clicking is true on exactly the detect_click_actions calls made with
\* thumb_index_touching true and a thumb-index distance >= click_threshold;
\* never on a call whose distance is below the threshold, never on two
\* consecutive calls.
C3_ClickOnReleaseOnly ==
    [][ (call'.op = "_detect_gesture_actions" /\ call'.mode = CLICK) =>
          /\ out'.actions.is_clicking <=>
                (classifier.thumb_index_touching
                 /\ call'.thumb_index_distance >= classifier.click_threshold)
          /\ call'.thumb_index_distance < classifier.click_threshold
                => ~out'.actions.is_clicking
          /\ (Frame(CLICK) /\ out.actions.is_clicking) => ~out'.actions.is_clicking
      ]_vars

\* A click reported on a release at exactly the threshold
C3_Witness ==
    /\ Frame(CLICK)
    /\ out.actions.is_clicking
    /\ call.thumb_index_distance = classifier.click_threshold

\* This step is a left-click-firing edge: a touching thumb-index pair released
LeftClickFires ==
    /\ call'.op = "_detect_gesture_actions" /\ call'.mode = CLICK
    /\ classifier.thumb_index_touching
    /\ call'.thumb_index_distance >= classifier.click_threshold

\* C4 as claimed: of two consecutive left-click-firing edges, the second reports
\* a double click and resets the counter when they are less than 0.5 s apart,
\* and reports a click that is no double click otherwise.
C4_DoubleClickOnEveryCloseEdge ==
    [][ (LeftClickFires /\ ghost.left_edge_at # -1) =>
          IF now' - ghost.left_edge_at < DoubleClickWindow
          THEN out'.actions.is_double_clicking /\ classifier'.click_count = 0
          ELSE out'.actions.is_clicking /\ ~out'.actions.is_double_clicking
      ]_vars

\* C4 as amended: the second of two edges less than 0.5 s apart reports a
\* double click and resets the counter when the first edge did not itself
\* complete a double click (click_count is 1); in every other case (0.5 s or
\* more apart, or the first edge completed a double click) the edge reports a
\* click that is no double click and the counter becomes 1.
C4_DoubleClickOnSecondCloseEdge ==
    [][ LeftClickFires =>
          /\ out'.actions.is_clicking
          /\ classifier'.last_click_time = now'
          /\ IF /\ ghost.left_edge_at # -1
                /\ now' - ghost.left_edge_at < DoubleClickWindow
                /\ classifier.click_count = 1
             THEN out'.actions.is_double_clicking /\ classifier'.click_count = 0
             ELSE ~out'.actions.is_double_clicking /\ classifier'.click_count = 1
      ]_vars

\* A double click was reported and the counter reset
C4_Witness ==
    /\ Frame(CLICK)
    /\ out.actions.is_double_clicking
    /\ classifier.click_count = 0
    /\ ghost.left_edge_at = now

\* This step is a SCROLL frame made with a stored reference position
ScrollFrameArmed ==
    /\ call'.op = "_detect_gesture_actions" /\ call'.mode = SCROLL
    /\ detector.scroll_palm_position # None

\* The last k entries of a sequence
LastEntries(history, k) ==
    SubSeq(history, Len(history) - Min(k, Len(history)) + 1, Len(history))

\* C5: on a _handle_scroll_mode call with a stored reference position, a scroll
\* event fires exactly when the frame yields a direction and the run buffer,
\* after the direction is appended and the oldest entry beyond
\* scroll_required_frames is evicted, holds scroll_required_frames entries
\* that are all equal; the event carries that direction and leaves the
\* reference position None and the buffer empty.
C5_ScrollFiresOnCompleteRun ==
    [][ ScrollFrameArmed =>
          LET N == detector.config.scroll_required_frames
              direction == ScrollDirection(detector, call'.palm_center)
              appended == Append(detector.scroll_direction_history, direction)
              buffer == IF Len(appended) > N
                        THEN SubSeq(appended, 2, Len(appended)) ELSE appended
              complete == /\ direction # NoDirection
                          /\ Len(buffer) = N
                          /\ \A i \in DOMAIN buffer : buffer[i] = direction
          IN /\ out'.actions.is_scrolling <=> complete
             /\ out'.actions.is_scrolling =>
                   /\ out'.actions.scroll_direction = direction
                   /\ detector'.scroll_palm_position = None
                   /\ detector'.scroll_direction_history = <<>>
             /\ ~out'.actions.is_scrolling => out'.actions.scroll_direction = "none"
      ]_vars

\* A scroll event fired by a run of two frames, the oldest entry evicted
C5_Witness ==
    /\ Frame(SCROLL)
    /\ out.actions.is_scrolling
    /\ detector.config.scroll_required_frames = 2
    /\ detector.scroll_palm_position = None
    /\ ghost.frames_since_scroll = 0

\* C6: with scroll_required_frames = N, the N-th consecutive SCROLL frame
\* yielding one direction fires a scroll event with that direction and no
\* earlier frame of the run does; the SCROLL frame after an event only
\* re-arms, so two scroll events are at least N + 1 frames apart.
C6_OneScrollPerRun ==
    [][ (call'.op = "_detect_gesture_actions" /\ call'.mode = SCROLL) =>
          LET N == detector.config.scroll_required_frames
              history == detector.scroll_direction_history
              armed == detector.scroll_palm_position # None
              direction == IF armed THEN ScrollDirection(detector, call'.palm_center)
                                    ELSE NoDirection
          IN /\ ( /\ armed /\ direction # NoDirection
                  /\ Len(history) >= N - 1
                  /\ \A i \in DOMAIN LastEntries(history, N - 1) :
                        LastEntries(history, N - 1)[i] = direction )
                => /\ out'.actions.is_scrolling
                   /\ out'.actions.scroll_direction = direction
             /\ out'.actions.is_scrolling =>
                   /\ armed
                   /\ detector.scroll_frame_count + 1 >= N
                   /\ ghost.frames_since_scroll # -1
                         => ghost.frames_since_scroll + 1 >= N + 1
             /\ ghost.frames_since_scroll = 0 =>
                   /\ ~out'.actions.is_scrolling
                   /\ detector'.scroll_palm_position = call'.palm_center
                   /\ detector'.scroll_direction_history = <<>>
      ]_vars

\* The SCROLL frame after a scroll event of a two-frame run: re-armed, no event
C6_Witness ==
    /\ Frame(SCROLL)
    /\ ghost.frames_since_scroll = 1
    /\ detector.config.scroll_required_frames = 2
    /\ ~out.actions.is_scrolling
    /\ detector.scroll_palm_position = call.palm_center
    /\ detector.scroll_direction_history = <<>>

\* C7: after every _handle_scroll_mode and _handle_swipe_mode call, also when
\* update_config changed the required-frame counts in between, the scroll
\* (swipe) direction history is no longer than the configured count.
C7_BufferWithinRequiredFrames ==
    /\ Frame(SCROLL) =>
          Len(detector.scroll_direction_history) <= detector.config.scroll_required_frames
    /\ Frame(SWIPE) =>
          Len(detector.swipe_direction_history) <= detector.config.swipe_required_frames

\* C8: with a fixed swipe_cooldown = c and a non-decreasing clock, no frame
\* reports is_swiping while is_swipe_cooldown is true and less than c has
\* elapsed since last_swipe_time, and any two frames reporting is_swiping are
\* at least c apart, also across frames that leave SWIPE mode and come back.
C8_CooldownGatesSwipes ==
    [][ call'.op = "_detect_gesture_actions" =>
          LET c == detector.config.swipe_cooldown
          IN /\ (detector.is_swipe_cooldown /\ now' - detector.last_swipe_time < c)
                   => ~out'.actions.is_swiping
             /\ (out'.actions.is_swiping /\ ghost.swipe_at # -1)
                   => now' - ghost.swipe_at >= c
      ]_vars

\* A SWIPE frame whose palm moved, silenced by the cooldown of an earlier swipe
C8_Witness ==
    /\ Frame(SWIPE)
    /\ detector.is_swipe_cooldown
    /\ ghost.swipe_at = detector.last_swipe_time
    /\ now - detector.last_swipe_time < detector.config.swipe_cooldown
    /\ now > detector.last_swipe_time
    /\ call.palm_center # detector.swipe_palm_position
    /\ ~out.actions.is_swiping

\* C9: the first _handle_swipe_mode call made swipe_cooldown or more after the
\* last swipe clears is_swipe_cooldown (it stays cleared unless that very call
\* completes a run and starts a new cooldown), and the swipe_required_frames-th
\* consecutive SWIPE frame yielding one direction reports is_swiping with that
\* direction: the cooldown does not block swipes for ever.
C9_SwipeAgainAfterCooldown ==
    [][ (call'.op = "_detect_gesture_actions" /\ call'.mode = SWIPE) =>
          LET c == detector.config.swipe_cooldown
              N == detector.config.swipe_required_frames
              history == detector.swipe_direction_history
              elapsed == now' - detector.last_swipe_time >= c
              open == ~detector.is_swipe_cooldown \/ elapsed
              armed == detector.swipe_palm_position # None
              direction == IF armed THEN SwipeDirection(detector, call'.palm_center)
                                    ELSE NoDirection
          IN /\ (detector.is_swipe_cooldown /\ elapsed) =>
                   \/ ~detector'.is_swipe_cooldown
                   \/ out'.actions.is_swiping /\ detector'.last_swipe_time = now'
             /\ ( /\ open /\ armed /\ direction # NoDirection
                  /\ Len(history) >= N - 1
                  /\ \A i \in DOMAIN LastEntries(history, N - 1) :
                        LastEntries(history, N - 1)[i] = direction )
                => /\ out'.actions.is_swiping
                   /\ out'.actions.swipe_direction = direction
      ]_vars

\* A second swipe, reported by a run of several frames after the cooldown ended
C9_Witness ==
    /\ Frame(SWIPE)
    /\ out.actions.is_swiping
    /\ ghost.swipes = 2
    /\ detector.config.swipe_required_frames >= 2

\* C10 as claimed: after the resets of the inactive modes the whole sub-state
\* is at its construction-time values, click_count, last_click_time,
\* is_swipe_cooldown and last_swipe_time included.
C10_ResetsRestoreConstructionState ==
    /\ (call.op = "_detect_gesture_actions" /\ call.mode # CLICK) =>
          /\ ~classifier.thumb_index_touching /\ ~classifier.thumb_middle_touching
          /\ classifier.click_count = 0 /\ classifier.last_click_time = 0
    /\ (call.op = "_detect_gesture_actions" /\ call.mode # SCROLL) =>
          /\ detector.scroll_palm_position = None
          /\ detector.scroll_direction_history = <<>>
          /\ detector.scroll_frame_count = 0
    /\ (call.op = "_detect_gesture_actions" /\ call.mode # SWIPE) =>
          /\ detector.swipe_palm_position = None
          /\ detector.swipe_direction_history = <<>>
          /\ detector.swipe_frame_count = 0
          /\ ~detector.is_swipe_cooldown /\ detector.last_swipe_time = 0

\* C10 as amended: the resets of the inactive modes, called once or again and
\* again from any state, raise nothing and leave the touch flags false, the
\* scroll reference None with its buffer empty and counter 0, the swipe
\* reference None with its buffer empty and counter 0; click_count,
\* last_click_time, is_swipe_cooldown and last_swipe_time keep the values they
\* had before the call.
C10_ResetsClearTransientState ==
    [][ call'.op = "_detect_gesture_actions" =>
          /\ ~out'.raised
          /\ call'.mode # CLICK =>
                /\ ~classifier'.thumb_index_touching
                /\ ~classifier'.thumb_middle_touching
                /\ classifier'.click_count = classifier.click_count
                /\ classifier'.last_click_time = classifier.last_click_time
                /\ ~out'.actions.is_clicking /\ ~out'.actions.is_right_clicking
                /\ ~out'.actions.is_double_clicking
          /\ call'.mode # SCROLL =>
                /\ detector'.scroll_palm_position = None
                /\ detector'.scroll_direction_history = <<>>
                /\ detector'.scroll_frame_count = 0
          /\ call'.mode # SWIPE =>
                /\ detector'.swipe_palm_position = None
                /\ detector'.swipe_direction_history = <<>>
                /\ detector'.swipe_frame_count = 0
                /\ detector'.is_swipe_cooldown = detector.is_swipe_cooldown
                /\ detector'.last_swipe_time = detector.last_swipe_time
      ]_vars

\* The resets ran after a swipe: the cooldown and its time stamp are still set
C10_Witness ==
    /\ Frame(MOVE)
    /\ detector.is_swipe_cooldown
    /\ detector.last_swipe_time > 0
    /\ detector.swipe_palm_position = None

\* C11: a frame whose stabilized mode is not CLICK leaves both touch flags
\* false and reports no click; when a touch was on at that frame, the first
\* frame back in CLICK mode reports no click for a thumb-index pair that is
\* apart and no right click for a thumb-middle pair that is apart.
C11_TouchDroppedOutsideClickMode ==
    [][ call'.op = "_detect_gesture_actions" =>
          /\ call'.mode # CLICK =>
                /\ ~classifier'.thumb_index_touching
                /\ ~classifier'.thumb_middle_touching
                /\ ~out'.actions.is_clicking
                /\ ~out'.actions.is_right_clicking
          /\ (ghost'.touch_dropped = 2
              /\ call'.thumb_index_distance >= classifier.click_threshold)
                => ~out'.actions.is_clicking /\ ~out'.actions.is_double_clicking
          /\ (ghost'.touch_dropped = 2
              /\ call'.thumb_middle_distance >= classifier.click_threshold)
                => ~out'.actions.is_right_clicking
      ]_vars

\* Back in CLICK mode with both pairs apart, after a touch was dropped
C11_Witness ==
    /\ Frame(CLICK)
    /\ ghost.touch_dropped = 2
    /\ call.thumb_index_distance >= classifier.click_threshold
    /\ call.thumb_middle_distance >= classifier.click_threshold
    /\ ~out.actions.is_clicking
    /\ ~out.actions.is_right_clicking

\* C12: in the result of _detect_gesture_actions for a stabilized mode m, the
\* three click flags can be true only if m = CLICK, is_scrolling (and a scroll
\* direction) only if m = SCROLL, is_swiping (and a swipe direction) only if
\* m = SWIPE; for m = MOVE all five flags are false and both directions are
\* "none"; m is one of MOVE, CLICK, SCROLL, SWIPE.
C12_ActionsOnlyInTheirMode ==
    call.op = "_detect_gesture_actions" =>
        LET a == out.actions
            m == call.mode
        IN /\ m \in GestureType
           /\ (a.is_clicking \/ a.is_right_clicking \/ a.is_double_clicking)
                 => m = CLICK
           /\ (a.is_scrolling \/ a.scroll_direction # "none") => m = SCROLL
           /\ (a.is_swiping \/ a.swipe_direction # "none") => m = SWIPE
           /\ m = MOVE =>
                 /\ ~a.is_clicking /\ ~a.is_right_clicking /\ ~a.is_double_clicking
                 /\ ~a.is_scrolling /\ ~a.is_swiping
                 /\ a.scroll_direction = "none" /\ a.swipe_direction = "none"

\* A MOVE frame right after a swipe was reported: nothing is reported
C12_Witness ==
    /\ Frame(MOVE)
    /\ ghost.swipe_at # -1
    /\ detector.is_swipe_cooldown
    /\ out.actions = DefaultActions

\* Number of flags that are true in a sequence of Booleans
CountTrue(flags) == Cardinality({i \in DOMAIN flags : flags[i]})

\* C13: each action detector reports at most one event per frame: at most one
\* of is_clicking, is_right_clicking and is_double_clicking is true in a
\* result of detect_click_actions, and the scroll and the swipe handler each
\* report at most one event, with one direction.
C13_AtMostOneEventPerFrame ==
    call.op = "_detect_gesture_actions" =>
        LET a == out.actions
        IN /\ CountTrue(<<a.is_clicking, a.is_right_clicking, a.is_double_clicking>>) <= 1
           /\ a.is_scrolling <=> a.scroll_direction \in {"up", "down", "left", "right"}
           /\ a.is_swiping <=> a.swipe_direction \in {"up", "down", "left", "right"}
           /\ ~a.is_scrolling => a.scroll_direction = "none"
           /\ ~a.is_swiping => a.swipe_direction = "none"

\* C14: the GestureData built by detect_gestures from raw landmark 9 = [x, y, z]
\* has palm_center = [1 - x, y, z] (the landmark list itself is a value the
\* call cannot change).
C14_PalmCenterMirrored ==
    (call.op = "detect_gestures" /\ call.n_landmarks = 21) =>
        /\ ~out.raised
        /\ out.palm_center =
              <<One - call.palm_center[1], call.palm_center[2], call.palm_center[3]>>

\* The last step was a call of _get_movement_direction
DirectionCall == call.op = "_get_movement_direction"

\* C15: _get_movement_direction returns no direction exactly when neither
\* |delta_x| nor |delta_y| exceeds min_distance; otherwise right or left by
\* the sign of delta_x when |delta_x| > |delta_y| and |delta_x| > min_distance,
\* and up (delta_y < 0) or down in the remaining cases.
C15_DirectionOfMovement ==
    DirectionCall =>
        LET dx == call.delta_x
            dy == call.delta_y
            ax == IF dx < 0 THEN 0 - dx ELSE dx
            ay == IF dy < 0 THEN 0 - dy ELSE dy
            m == call.min_distance
        IN /\ out.direction = NoDirection <=> (ax <= m /\ ay <= m)
           /\ (ax > ay /\ ax > m /\ dx > 0) => out.direction = "right"
           /\ (ax > ay /\ ax > m /\ dx < 0) => out.direction = "left"
           /\ (~(ax > ay /\ ax > m) /\ ~(ax <= m /\ ay <= m) /\ dy < 0)
                 => out.direction = "up"
           /\ (~(ax > ay /\ ax > m) /\ ~(ax <= m /\ ay <= m) /\ dy >= 0)
                 => out.direction = "down"

\* No direction for a movement that is exactly min_distance long on both axes
C15_Witness ==
    /\ DirectionCall
    /\ call.delta_x = -1 /\ call.delta_y = 1 /\ call.min_distance = 1
    /\ out.direction = NoDirection

\* C16 as claimed: a tie |delta_x| = |delta_y| above min_distance is resolved
\* on the X axis, the result is right or left.
C16_TieResolvedOnX ==
    (/\ DirectionCall
     /\ call.delta_x * call.delta_x = call.delta_y * call.delta_y
     /\ call.delta_x * call.delta_x > call.min_distance * call.min_distance)
        => out.direction \in {"right", "left"}

\* C16 as amended: a tie |delta_x| = |delta_y| above min_distance is resolved
\* on the Y axis: the result is up when delta_y < 0 and down when delta_y > 0,
\* never right or left.
C16_TieResolvedOnY ==
    (/\ DirectionCall
     /\ call.delta_x * call.delta_x = call.delta_y * call.delta_y
     /\ call.delta_x * call.delta_x > call.min_distance * call.min_distance)
        => out.direction = IF call.delta_y < 0 THEN "up" ELSE "down"

\* A diagonal movement to the upper right, above min_distance on both axes
C16_Witness ==
    /\ DirectionCall
    /\ call.delta_x = 2 /\ call.delta_y = -2 /\ call.min_distance = 1
    /\ out.direction = "up"

\* C17: for a landmark sequence whose length is not 21, shorter or longer,
\* detect_gestures raises GestureError and returns no GestureData.
C17_WrongLengthRaises ==
    (call.op = "detect_gestures" /\ call.n_landmarks # 21) =>
        /\ out.raised
        /\ out.palm_center = None
        /\ out.gesture_mode = ""

\* A sequence of 22 landmarks was refused
C17_Witness ==
    /\ call.op = "detect_gestures"
    /\ call.n_landmarks = 22
    /\ out.raised

\* C18: update_config(c) stores c in the detector and in its classifier, with
\* the classifier's finger_threshold and click_threshold taken from c, and the
\* frame processed next behaves as a frame of a detector whose thresholds,
\* required-frame counts, cooldown and invert flags are those of c.
C18_ConfigTakesEffectOnNextFrame ==
    [][ /\ call'.op = "update_config" =>
              /\ detector'.config = call'.config
              /\ classifier'.config = call'.config
              /\ classifier'.finger_threshold = call'.config.finger_threshold
              /\ classifier'.click_threshold = call'.config.click_threshold
        /\ (call.op = "update_config" /\ call'.op = "_detect_gesture_actions") =>
              LET c == call.config
                  expected == _detect_gesture_actions(
                      [classifier EXCEPT !.config = c,
                                         !.finger_threshold = c.finger_threshold,
                                         !.click_threshold = c.click_threshold],
                      [detector EXCEPT !.config = c],
                      call'.mode, call'.thumb_index_distance,
                      call'.thumb_middle_distance, now', call'.palm_center)
              IN /\ out'.actions = expected.actions
                 /\ classifier' = expected.classifier
                 /\ detector' = expected.detector
      ]_vars

\* The frame after click_threshold was raised: a distance that was apart
\* under the old threshold now counts as a touch
C18_Witness ==
    /\ Frame(CLICK)
    /\ call.after_update
    /\ classifier.click_threshold = 3
    /\ call.thumb_index_distance = 2
    /\ classifier.thumb_index_touching

\* C19: the double-click window is the configured value w (double_click_time,
\* 0.5 s by default): a left-click edge counts toward a double click exactly
\* when it comes less than w after the previous left-click edge; at w or more
\* it is a plain click that restarts the count at 1.
C19_DoubleClickWindowConfigured ==
    [][ (call'.op = "_detect_gesture_actions" /\ out'.actions.is_clicking) =>
          LET w == detector.config.double_click_time
              gap == now' - classifier.last_click_time
          IN IF gap < w
             THEN \/ out'.actions.is_double_clicking
                  \/ classifier'.click_count = classifier.click_count + 1
             ELSE /\ ~out'.actions.is_double_clicking
                  /\ classifier'.click_count = 1
      ]_vars

\* C20: update_mouse_position calls moveTo, and the cursor changes place, only
\* on a call whose gesture_mode is MOVE and that is not the first call after
\* construction or reset_state; on every other call, and on reset_state, the
\* cursor stays where it is.
C20_CursorMovesOnlyInMoveMode ==
    [][ /\ call'.op = "update_mouse_position" =>
              /\ (out'.moved \/ mouse'.cursor # mouse.cursor)
                    => (call'.mode = MOVE /\ mouse.is_initialized)
              /\ (call'.mode # MOVE \/ ~mouse.is_initialized)
                    => (~out'.moved /\ mouse'.cursor = mouse.cursor)
        /\ call'.op = "reset_state" => mouse'.cursor = mouse.cursor
      ]_vars

\* A call in CLICK mode, made after the cursor had been moved: no moveTo
C20_Witness ==
    /\ call.op = "update_mouse_position"
    /\ call.mode = CLICK
    /\ mouse.is_initialized
    /\ mouse.cursor # CursorStart
    /\ mouse.current_state = mouse.cursor
    /\ ~out.moved

\* C21: in one pass of the display loop detect_gestures is called for at most
\* one hand, the first of the detected hands, however many hands the hand
\* detector returned, so that the detector is never advanced by two hands of
\* the same camera frame.
C21_OneHandPerPass ==
    call.op = "display_pass" =>
        /\ out.detect_calls <= 1
        /\ out.detect_calls = (IF call.n_hands = 0 THEN 0 ELSE 1)
        /\ out.hands_done <= 1

\* A pass over a frame with two hands: one call of detect_gestures
C21_Witness ==
    /\ call.op = "display_pass"
    /\ call.n_hands = 2
    /\ out.detect_calls = 1

\* C22: whatever the interleaving of start_display and stop_display with the
\* display threads, at most one display thread is alive and in its loop, so
\* that at most one call of detect_gestures on the shared detector is active.
C22_OneDisplayThread ==
    Cardinality(Looping(panel)) <= 1

\* C23: get_stable_gesture_mode returns the mode it is given, for every mode
\* and every content of the history (scroll without a look at the history,
\* any mode with fewer than three records, any mode with three), and leaves
\* the history as it is.
C23_StableModeIsCurrentMode ==
    [][call'.op = "get_stable_gesture_mode" =>
            /\ out'.gesture_mode = call'.mode
            /\ classifier'.gesture_history = classifier.gesture_history]_vars

\* A full history without the mode asked for, and that mode returned
C23_Witness ==
    /\ call.op = "get_stable_gesture_mode"
    /\ call.mode # SCROLL
    /\ Len(classifier.gesture_history) = max_history_size
    /\ \A i \in 1..Len(classifier.gesture_history) :
           classifier.gesture_history[i].mode # call.mode
    /\ out.gesture_mode = call.mode

\* C24: the gesture history holds at most three records; a record added to a
\* history of three removes the oldest one, and the others keep their order
\* with the new record last.
C24_HistoryKeepsLastThree ==
    [][call'.op = "_add_to_history" =>
            /\ Len(classifier'.gesture_history) <= max_history_size
            /\ classifier'.gesture_history =
                   LastEntries(Append(classifier.gesture_history, call'.gesture_info),
                               max_history_size)
            /\ call'.gesture_info.mode = call'.mode
            /\ call'.gesture_info.timestamp = now']_vars

\* A record added to a full history whose oldest record differs from the
\* others
C24_Witness ==
    /\ call.op = "_add_to_history"
    /\ call.prev_len = max_history_size
    /\ Len(classifier.gesture_history) = max_history_size
    /\ classifier.gesture_history[max_history_size] = call.gesture_info
    /\ classifier.gesture_history[1] # classifier.gesture_history[2]
    /\ classifier.gesture_history[2] # call.gesture_info

\* C25: handle_mode_change with a mode other than current_gesture_mode empties
\* the history, stores the mode and sets is_mode_stable; with the current
\* mode it changes nothing.
C25_ModeChangeClearsHistory ==
    [][call'.op = "handle_mode_change" =>
            IF call'.mode # classifier.current_gesture_mode
            THEN /\ classifier'.gesture_history = <<>>
                 /\ classifier'.current_gesture_mode = call'.mode
                 /\ classifier'.is_mode_stable
                 /\ classifier' = [classifier EXCEPT !.gesture_history = <<>>,
                                                     !.current_gesture_mode = call'.mode,
                                                     !.is_mode_stable = TRUE]
            ELSE classifier' = classifier]_vars

\* A change of mode over a history that held records
C25_Witness ==
    /\ call.op = "handle_mode_change"
    /\ call.mode # call.prev_mode
    /\ call.prev_len > 0
    /\ classifier.gesture_history = <<>>
    /\ classifier.current_gesture_mode = call.mode
    /\ classifier.is_mode_stable

\* The same mode again over a history that holds records
C25_WitnessSameMode ==
    /\ call.op = "handle_mode_change"
    /\ call.mode = call.prev_mode
    /\ call.prev_len > 0
    /\ Len(classifier.gesture_history) = call.prev_len

\* This step is a right-click-firing edge: a touching thumb-middle pair released
RightClickFires ==
    /\ call'.op = "_detect_gesture_actions" /\ call'.mode = CLICK
    /\ classifier.thumb_middle_touching
    /\ call'.thumb_middle_distance >= classifier.click_threshold

\* C26: is_right_clicking is reported exactly on the calls that find
\* thumb_middle_touching true and a thumb-middle distance >= click_threshold;
\* that edge by itself reports no double click and leaves click_count and
\* last_click_time as they were; the thumb-index flag follows the thumb-index
\* distance alone, whatever the thumb-middle distance.
C26_RightClickOnReleaseOnly ==
    [][ (call'.op = "_detect_gesture_actions" /\ call'.mode = CLICK) =>
          /\ out'.actions.is_right_clicking <=> RightClickFires
          /\ (RightClickFires /\ ~LeftClickFires) =>
                /\ ~out'.actions.is_double_clicking
                /\ classifier'.click_count = classifier.click_count
                /\ classifier'.last_click_time = classifier.last_click_time
          /\ classifier'.thumb_index_touching =
                (call'.thumb_index_distance < classifier.click_threshold)
          /\ classifier'.thumb_middle_touching =
                (call'.thumb_middle_distance < classifier.click_threshold)
          /\ \A d \in Distances :
                LET other == detect_click_actions(classifier, call'.thumb_index_distance,
                                                  d, now')
                IN /\ other.self.thumb_index_touching = classifier'.thumb_index_touching
                   /\ other.self.click_count = classifier'.click_count
                   /\ other.self.last_click_time = classifier'.last_click_time
                   /\ other.actions.is_clicking = out'.actions.is_clicking
                   /\ other.actions.is_double_clicking = out'.actions.is_double_clicking
      ]_vars

\* A right click on a release at exactly the threshold, after an earlier left
\* click whose count and time are still in place
C26_Witness ==
    /\ Frame(CLICK)
    /\ out.actions.is_right_clicking
    /\ ~out.actions.is_clicking
    /\ ~out.actions.is_double_clicking
    /\ call.thumb_middle_distance = classifier.click_threshold
    /\ classifier.click_count = 1
    /\ classifier.last_click_time < now
    /\ classifier.last_click_time = ghost.left_edge_at

\* C27: the first SCROLL frame, made while the reference position is None,
\* stores its palm as the reference, empties the run buffer and its counter
\* and reports no scroll, whatever the palm is.
C27_FirstScrollFrameArms ==
    [][ ( /\ call'.op = "_detect_gesture_actions" /\ call'.mode = SCROLL
          /\ detector.scroll_palm_position = None ) =>
          /\ detector'.scroll_palm_position = call'.palm_center
          /\ detector'.scroll_direction_history = <<>>
          /\ detector'.scroll_frame_count = 0
          /\ ~out'.actions.is_scrolling
          /\ out'.actions.scroll_direction = "none"
      ]_vars

\* The SCROLL frame right after a scroll event (the reference was None): it
\* arms with a palm away from the origin
C27_Witness ==
    /\ Frame(SCROLL)
    /\ ghost.frames_since_scroll = 1
    /\ call.palm_center # <<0, 0, 0>>
    /\ detector.scroll_palm_position = call.palm_center
    /\ detector.scroll_direction_history = <<>>
    /\ ~out.actions.is_scrolling

\* The palm of this step's frame is within the scroll distance threshold of
\* the given point, on both axes
WithinScrollThreshold(point) ==
    /\ Abs(call'.palm_center[1] - point[1]) <= detector.config.scroll_distance_threshold
    /\ Abs(call'.palm_center[2] - point[2]) <= detector.config.scroll_distance_threshold

\* C28: a SCROLL frame that yields no direction empties the run buffer and
\* makes the current palm the reference; every SCROLL frame that does not fire
\* makes the current palm the reference; so a SCROLL frame whose palm is within
\* scroll_distance_threshold of the palm of the SCROLL frame before it, on both
\* axes, never fires, however far the palm has crept over the run.
C28_ReferenceFollowsPalm ==
    [][ (call'.op = "_detect_gesture_actions" /\ call'.mode = SCROLL) =>
          /\ ( /\ detector.scroll_palm_position # None
               /\ ScrollDirection(detector, call'.palm_center) = NoDirection ) =>
                 /\ detector'.scroll_direction_history = <<>>
                 /\ detector'.scroll_frame_count = 0
                 /\ detector'.scroll_palm_position = call'.palm_center
                 /\ ~out'.actions.is_scrolling
          /\ ~out'.actions.is_scrolling =>
                 detector'.scroll_palm_position = call'.palm_center
          /\ (Frame(SCROLL) /\ WithinScrollThreshold(call.palm_center)) =>
                 ~out'.actions.is_scrolling
      ]_vars

\* A palm that crept two units from where its quiet run began, one unit (the
\* threshold) a frame, without a scroll event
C28_Witness ==
    /\ Frame(SCROLL)
    /\ detector.config.scroll_distance_threshold = 1
    /\ call.palm_center = <<2, 0, 0>>
    /\ detector.scroll_palm_position = <<2, 0, 0>>
    /\ detector.scroll_direction_history = <<>>
    /\ ~out.actions.is_scrolling
    /\ ghost.frames_since_scroll = -1
    /\ ghost.quiet_from = <<0, 0, 0>>

\* C29: a SWIPE frame made while the cooldown is active (is_swipe_cooldown
\* set and less than swipe_cooldown elapsed since last_swipe_time) reports no
\* swipe and leaves swipe_palm_position, swipe_direction_history,
\* swipe_frame_count, is_swipe_cooldown and last_swipe_time as they were.
C29_CooldownFrameChangesNothing ==
    [][ ( /\ call'.op = "_detect_gesture_actions" /\ call'.mode = SWIPE
          /\ detector.is_swipe_cooldown
          /\ now' - detector.last_swipe_time < detector.config.swipe_cooldown ) =>
          /\ ~out'.actions.is_swiping
          /\ out'.actions.swipe_direction = "none"
          /\ detector'.swipe_palm_position = detector.swipe_palm_position
          /\ detector'.swipe_direction_history = detector.swipe_direction_history
          /\ detector'.swipe_frame_count = detector.swipe_frame_count
          /\ detector'.is_swipe_cooldown = detector.is_swipe_cooldown
          /\ detector'.last_swipe_time = detector.last_swipe_time
      ]_vars

\* A SWIPE frame in the cooldown, later than the swipe and with a palm away
\* from the stored one: the stored palm stays
C29_Witness ==
    /\ Frame(SWIPE)
    /\ ~out.actions.is_swiping
    /\ detector.is_swipe_cooldown
    /\ now > detector.last_swipe_time
    /\ now - detector.last_swipe_time < detector.config.swipe_cooldown
    /\ detector.swipe_palm_position # None
    /\ detector.swipe_palm_position # call.palm_center

\* C30: on the frame a swipe fires, is_swipe_cooldown becomes true,
\* last_swipe_time becomes the time of the frame, the run buffer and its
\* counter are emptied, and swipe_palm_position keeps the value it had before
\* the frame.
C30_SwipeStartsCooldown ==
    [][ ( /\ call'.op = "_detect_gesture_actions"
          /\ out'.actions.is_swiping ) =>
          /\ call'.mode = SWIPE
          /\ detector'.is_swipe_cooldown
          /\ detector'.last_swipe_time = now'
          /\ detector'.swipe_direction_history = <<>>
          /\ detector'.swipe_frame_count = 0
          /\ detector.swipe_palm_position # None
          /\ detector'.swipe_palm_position = detector.swipe_palm_position
      ]_vars

\* A swipe fired by a palm away from the stored one, which stays stored
C30_Witness ==
    /\ Frame(SWIPE)
    /\ out.actions.is_swiping
    /\ detector.is_swipe_cooldown
    /\ detector.last_swipe_time = now
    /\ now > 0
    /\ detector.swipe_direction_history = <<>>
    /\ detector.swipe_palm_position # None
    /\ detector.swipe_palm_position # call.palm_center

\* "left" and "right" exchanged when the flag is set
FlipX(flag, direction) ==
    IF ~flag THEN direction
    ELSE CASE direction = "left" -> "right"
           [] direction = "right" -> "left"
           [] OTHER -> direction

\* "up" and "down" exchanged when the flag is set
FlipY(flag, direction) ==
    IF ~flag THEN direction
    ELSE CASE direction = "up" -> "down"
           [] direction = "down" -> "up"
           [] OTHER -> direction

\* C31: for every movement of the palm and every threshold >= 0,
\* invert_scroll_x (invert_swipe_x) exchanges "left" and "right" and
\* invert_scroll_y (invert_swipe_y) exchanges "up" and "down" in the direction
\* of the scroll (swipe) handler and leave every other outcome as it is; the
\* scroll flags have no effect on the swipe direction, nor the swipe flags on
\* the scroll direction.
C31_InversionExchangesDirections ==
    call.op = "handler_directions" =>
        LET plain == _get_movement_direction(
                         call.palm_center[1] - call.reference[1],
                         call.palm_center[2] - call.reference[2],
                         call.config.scroll_distance_threshold)
            plain_swipe == _get_movement_direction(
                         call.palm_center[1] - call.reference[1],
                         call.palm_center[2] - call.reference[2],
                         call.config.swipe_distance_threshold)
        IN /\ out.direction =
                  FlipY(call.config.invert_scroll_y,
                        FlipX(call.config.invert_scroll_x, plain))
           /\ out.swipe_direction =
                  FlipY(call.config.invert_swipe_y,
                        FlipX(call.config.invert_swipe_x, plain_swipe))

\* A movement to the right with only invert_scroll_x set: the scroll handler
\* sees "left", the swipe handler "right"
C31_Witness ==
    /\ call.op = "handler_directions"
    /\ call.config.invert_scroll_x /\ ~call.config.invert_scroll_y
    /\ ~call.config.invert_swipe_x /\ ~call.config.invert_swipe_y
    /\ call.config.scroll_distance_threshold = call.config.swipe_distance_threshold
    /\ out.direction = "left"
    /\ out.swipe_direction = "right"

\* A movement up with only invert_swipe_y set: the swipe handler sees "down",
\* the scroll handler "up"
C31_WitnessY ==
    /\ call.op = "handler_directions"
    /\ ~call.config.invert_scroll_x /\ ~call.config.invert_scroll_y
    /\ ~call.config.invert_swipe_x /\ call.config.invert_swipe_y
    /\ out.direction = "up"
    /\ out.swipe_direction = "down"

\* The last step was a HandTracker frame with ring and pinky extended and the
\* thumb-middle pair apart
TrackerFrameOpenHand ==
    /\ call.op = "HandTracker.detect_gestures"
    /\ call.finger_state.ring_extended /\ call.finger_state.pinky_extended
    /\ call.thumb_middle_distance >= tracker.motion.config.click_threshold

\* C32: in the HandTracker variant, a thumb-index touch followed by the
\* release of the thumb-index pair, with ring and pinky extended on both
\* frames and the thumb-middle pair apart on both, reports is_clicking on the
\* release frame.
C32_TrackerClickOnRelease ==
    [][ ( /\ TrackerFrameOpenHand
          /\ call.thumb_index_distance < tracker.motion.config.click_threshold
          /\ TrackerFrameOpenHand'
          /\ call'.thumb_index_distance >= tracker.motion.config.click_threshold )
        => out'.actions.is_clicking ]_vars

\* C33: whenever detect_gestures raises GestureError, the classifier and the
\* detector are in every field (mode history, current_gesture_mode, touch
\* flags, click_count, last_click_time, scroll and swipe reference positions,
\* run buffers, cooldown flag, last_swipe_time) as they were before the call.
C33_RaiseLeavesStateUntouched ==
    [][ (call'.op = "detect_gestures" /\ out'.raised) =>
          /\ classifier' = classifier
          /\ detector' = detector ]_vars

\* A raising call on 21 landmarks made while a touch is on and a click is
\* counted
C33_Witness ==
    /\ call.op = "detect_gestures"
    /\ out.raised
    /\ call.n_landmarks = 21
    /\ classifier.thumb_index_touching
    /\ classifier.click_count = 1

\* A raising call on too few landmarks made during a swipe cooldown with a
\* stored palm
C33_WitnessShort ==
    /\ call.op = "detect_gestures"
    /\ out.raised
    /\ call.n_landmarks < 21
    /\ detector.is_swipe_cooldown
    /\ detector.swipe_palm_position # None

\* C34: every SWIPE frame that reports is_swiping has a palm that differs from
\* the palm of the frame processed immediately before it by more than
\* swipe_distance_threshold on the axis of the reported direction; a hand that
\* has stopped never fires a swipe, also on the first frames after a cooldown.
C34_SwipeNeedsMovement ==
    [][ ( /\ Frame(SWIPE)
          /\ call'.op = "_detect_gesture_actions" /\ call'.mode = SWIPE
          /\ out'.actions.is_swiping ) =>
          IF out'.actions.swipe_direction \in {"left", "right"}
          THEN Abs(call'.palm_center[1] - call.palm_center[1])
                   > detector.config.swipe_distance_threshold
          ELSE Abs(call'.palm_center[2] - call.palm_center[2])
                   > detector.config.swipe_distance_threshold ]_vars


\* C35: in every result of detect_click_actions a reported double click is also
\* a reported click: is_double_clicking = TRUE implies is_clicking = TRUE, so a
\* consumer handed the result sees both flags raised on a double-click frame.
C35_DoubleClickIsAClick ==
    (call.op = "_detect_gesture_actions" /\ out.actions.is_double_clicking)
        => out.actions.is_clicking

\* A CLICK frame reported a double click, at the end of a second release
C35_Witness ==
    /\ Frame(CLICK)
    /\ out.actions.is_double_clicking
    /\ classifier.click_count = 0
    /\ ~classifier.thumb_index_touching


\* C36: every position update_mouse_position passes to moveTo satisfies
\* 1 <= x <= screen_width - 2 and 1 <= y <= screen_height - 2, wherever the
\* pointer was and whatever the palm delta and the smoothing are.
C36_MoveToStaysOffTheEdge ==
    (call.op = "update_mouse_position" /\ out.moved) =>
        /\ 1 <= mouse.cursor[1] /\ mouse.cursor[1] <= screen_width - 2
        /\ 1 <= mouse.cursor[2] /\ mouse.cursor[2] <= screen_height - 2
        /\ mouse.current_state = mouse.cursor

\* moveTo was given the left limit although the smoothed delta points further
\* left than the screen is wide
C36_Witness ==
    /\ call.op = "update_mouse_position" /\ out.moved
    /\ mouse.cursor[1] = 1
    /\ mouse.smoothed_x * PixelsPerStep <= 0 - screen_width

\* moveTo was given the right limit although the smoothed delta points further
\* right than the screen is wide
C36_WitnessRight ==
    /\ call.op = "update_mouse_position" /\ out.moved
    /\ mouse.cursor[1] = screen_width - 2
    /\ mouse.smoothed_x * PixelsPerStep >= screen_width


\* C37: after every detect_click_actions or reset_click_states call click_count
\* is 0 or 1, and it is 0 only as long as no click has been reported since
\* construction or since a reported double click: a call leaves it at 0 either
\* by reporting a double click or by finding it 0 and reporting no click.
C37_ClickCountZeroOrOne ==
    [][ /\ classifier'.click_count \in {0, 1}
        /\ classifier'.click_count = 0 =>
              \/ /\ call'.op = "_detect_gesture_actions"
                 /\ out'.actions.is_double_clicking
              \/ /\ classifier.click_count = 0
                 /\ ~LeftClickFires ]_vars

\* The counter is still 0 on a CLICK frame without a click, after the double
\* click that cleared it
C37_Witness ==
    /\ Frame(CLICK)
    /\ ghost.left_edge_at # -1
    /\ classifier.click_count = 0
    /\ ~out.actions.is_clicking

\* The counter is 1 after a click made too late to complete a double click
C37_WitnessSingle ==
    /\ Frame(CLICK)
    /\ out.actions.is_clicking /\ ~out.actions.is_double_clicking
    /\ classifier.click_count = 1
    /\ now >= DoubleClickWindow


\* The modes of the records in the classifier's history
HistoryModes == {classifier.gesture_history[i].mode : i \in 1..Len(classifier.gesture_history)}

\* C38: after every frame processed in the order handle_mode_change,
\* get_stable_gesture_mode, add_to_gesture_history, every record of the history
\* has the mode current_gesture_mode; so when the history holds three records
\* the classified mode is among them, and the branch of get_stable_gesture_mode
\* for a mode absent from the last three records is never taken.
C38_HistoryHoldsCurrentMode ==
    call.op = "classify_frame" =>
        /\ HistoryModes = {classifier.current_gesture_mode}
        /\ classifier.current_gesture_mode = call.mode
        /\ out.gesture_mode = call.mode
        /\ ~out.mode_absent
        /\ call.prev_len = max_history_size =>
               classifier.gesture_history[1].mode = call.mode

\* A frame that is no SCROLL frame met a full history: the last three records
\* were consulted, and held the frame's mode
C38_Witness ==
    /\ call.op = "classify_frame"
    /\ call.mode # SCROLL
    /\ call.prev_len = max_history_size
    /\ Len(classifier.gesture_history) = max_history_size

\* A frame of another mode than the one before: the history was cleared and
\* holds the new frame alone
C38_WitnessModeChange ==
    /\ call.op = "classify_frame"
    /\ call.prev_mode # call.mode
    /\ call.prev_mode # CLICK
    /\ Len(classifier.gesture_history) = 1

====
